---- MODULE Spec2Model ----
(***************************************************************************)
(* A model of the online tracker of NetCAT: the pattern of cache sets      *)
(* (online_tracker/pattern.rs), the pattern finder and the tracking        *)
(* context (online_tracker/tracking.rs).                                   *)
(*                                                                         *)
(* Encodings: a SetCode(color, colored_index) is the pair <<color, idx>>;  *)
(* a ProbeResult is "Activated" or "Stale" (the latencies it carries are   *)
(* never read by the code modelled here); Option<T> is <<>> for None and   *)
(* <<v>> for Some(v); io::Result<T> is a record with the field ok.         *)
(***************************************************************************)
EXTENDS Integers, Sequences, FiniteSets, Bags, TLC

VARIABLES
    op,          \* the operation that produced the current state
    pattern,     \* Pattern(Vec<SetCode>): the pattern under test
    pos,         \* the PatternIdx argument of the last pattern operation
    probe_res,   \* the probe vector handed to recover_next
    win,         \* what Pattern::window yielded, collected
    rec,         \* what Pattern::recover_next returned
    walk_start,  \* where the walk along next_pos started
    walk_steps,  \* how many times next_pos was applied on the walk
    walk_seen,   \* the positions next_pos returned on the walk, in order
    patterns,    \* PossiblePatterns: the input of Pattern::find
    found,       \* what Pattern::find returned
    ctx,         \* the TrackingContext
    arg,         \* the argument of the last TrackingContext operation
    pc,          \* where the call of measure stands
    round,       \* how many rounds of measure have been saved
    m_cnt,       \* cnt, the argument of measure: the rounds to take
    sent,        \* whether the current round of measure sent a packet
    m_log,       \* the calls measure issued in the current round, in order
    saved,       \* the recorder: of each record the size and the status
    last_rec,    \* the recorder: the last record, whole
    classifier,  \* the TimingClassifier
    cl_mode,     \* how the classifier is trained: "any" samples or the "feed"
    verdict,     \* the last classification asked of the classifier, if any
    colored_sets, \* Rpp::colored_sets: per color, the eviction sets in order
    set_code,    \* the SetCode handed to prime or probe
    cand,        \* the set handed to check_evicts
    replies,     \* what the connector answers to the calls, in order
    calls,       \* the calls the connector received, in order
    rpp_res,     \* what the Rpp operation returned
    cparams,     \* the CacheParams handed to Rpp::with_params
    params,      \* Rpp::params: the RppParams derived from the CacheParams
    quite,       \* Rpp::quite
    addrs,       \* Rpp::addrs: the address pools, by the value of bits 6-12
    build_pc,    \* where build_sets stands
    b_err_cnt,   \* err_cnt of build_sets: failed add_sets on the current set
    cur_set,     \* the set build_initial_set returned for the current color
    variant,     \* i of add_sets: the variant to derive next
    new_sets,    \* sets of add_sets: the sets of the color derived so far
    faults,      \* how many answers the environment may still spoil
    t_pc,        \* where track stands
    t_err_cnt,   \* err_cnt of track
    t_err,       \* the error of the last failed attempt of track
    locate_tries,  \* calls of locate_rx made by track
    locate_fails,  \* those that returned Err
    measure_tries, \* calls of measure made by track
    measure_fails, \* those that returned Err
    track_res,   \* what track returned
    g_pc,        \* where get_init_pos stands
    g_err_cnt,   \* err_cnt of get_init_pos
    g_log,       \* the calls of the current turn of its loop, with results
    g_res,       \* what get_init_pos returned
    l_pc,        \* where locate_rx_round stands
    l_color,     \* color_code of its outer loop
    l_rep,       \* the pass over the sets of the color, of REPEATINGS
    l_idx,       \* colored_set_code of its inner loop
    l_trace,     \* pattern: the trace of the color in hand
    l_log,       \* the calls made for the set in hand, with results
    l_act,       \* how many probes of the round returned Activated
    l_hot,       \* which probes of the round the ring buffer answers
    l_res,       \* what locate_rx_round returned
    trn_pc,      \* where train_classifier stands
    trn_left,    \* the sampled addresses it has not finished with
    trn_miss,    \* miss_time of the address in hand
    trn_log,     \* the connector calls it made, with results
    trained,     \* the sampls_num of every train_classifier call of build_sets
    r_iters,     \* the turns its while loop has taken
    fs_pc,       \* where the call of forward_selection stands
    fs_idx,      \* its argument idx
    fs_addr,     \* its argument addr
    fs_env,      \* how the cache answers during the call
    fs_res,      \* what it returned, and the calls of check_evicts it made
    bi_pc,       \* where the call of build_initial_set stands
    bi_pools,    \* the address table when it was called
    bi_seed,     \* the address it drew from pool 0
    bi_env,      \* how the cache answers during the call
    bi_res,      \* what it returned, and the calls of check_evicts it made
    bs_pc,       \* where the call of backward_selection stands
    bs_in,       \* the set s when it was called
    bs_s,        \* the set s
    bs_x,        \* its argument x
    bs_env,      \* how the cache answers during the call
    bs_k,        \* the calls of check_evicts it has made
    bs_res,      \* what it returned
    m_base       \* the records the recorder held when measure was called

\* The variables of a call of OnlineTracker::measure, besides the pattern,
\* the context and the probe vector.
measureVars == <<pc, round, m_cnt, sent, m_log, saved, last_rec>>

\* The variables of the components that the pattern, the finder and the
\* context never touch.
classifierVars == <<classifier, cl_mode, verdict>>

rppVars == <<colored_sets, set_code, cand, replies, calls, rpp_res>>

buildVars ==
    <<cparams, params, quite, addrs, build_pc, b_err_cnt, cur_set, variant, new_sets, faults>>

trackVars ==
    <<t_pc, t_err_cnt, t_err, locate_tries, locate_fails, measure_tries,
      measure_fails, track_res>>

initPosVars == <<g_pc, g_err_cnt, g_log, g_res>>

\* The variables of the specifications further down.
locateVars ==
    <<l_pc, l_color, l_rep, l_idx, l_trace, l_log, l_act, l_hot, l_res>>

trainVars == <<trn_pc, trn_left, trn_miss, trn_log>>

refreshVars == <<trained, r_iters>>

selectVars == <<fs_pc, fs_idx, fs_addr, fs_env, fs_res>>

initialVars == <<bi_pc, bi_pools, bi_seed, bi_env, bi_res>>

backVars == <<bs_pc, bs_in, bs_s, bs_x, bs_env, bs_k, bs_res>>

retryVars == <<m_base>>

lateVars == <<initialVars, backVars, retryVars>>

moreVars ==
    <<initPosVars, locateVars, trainVars, refreshVars, selectVars, lateVars>>

restVars ==
    <<measureVars, classifierVars, rppVars, buildVars, trackVars, moreVars>>

vars == <<op, pattern, pos, probe_res, win, rec, walk_start, walk_steps,
          walk_seen, patterns, found, ctx, arg, restVars>>

---------------------------------------------------------------------------
(* Program constants *)

WINDOW_SIZE == 10

REPEATINGS == 8

(* Bounds of the model *)

\* Patterns have 1..MaxPatLen set codes (longer than the window, so that a
\* window both wraps and does not wrap).
MaxPatLen == 11

\* Colors are 0..MaxColors-1.
MaxColors == 2

\* Colored set codes in the traces handed to Pattern::find are 0..MaxCode-1.
MaxCode == 2

\* Positions handed to a TrackingContext are 0..MaxPos.
MaxPos == 3

\* The unsynced counter of a TrackingContext is followed up to MaxUnsynced.
MaxUnsynced == 4

\* A trace handed to Pattern::find has REPEATINGS chunks of 0..MaxChunkLen
\* entries each.
MaxChunkLen == 2

---------------------------------------------------------------------------
(* Result and Option *)

Ok(v) == [ok |-> TRUE, val |-> v]

Err(msg) == [ok |-> FALSE, err |-> msg]

None == <<>>

Some(v) == <<v>>

Activated == "Activated"

Stale == "Stale"

is_activated(x) == x = Activated

is_stale(x) == ~is_activated(x)

---------------------------------------------------------------------------
(* Pattern: window, next_pos, recover_next *)

\* s.iter().cycle().skip(n).take(k), collected; Rust indices are 0-based,
\* TLA+ sequences 1-based.
CycleSkipTake(s, n, k) == [i \in 1..k |-> s[((n + i - 1) % Len(s)) + 1]]

\* Variant: the window starts one set late.
window_shifted(pat, p) ==
    LET pat_len == Len(pat)
        left == (p - WINDOW_SIZE \div 2 + 1) % pat_len
    IN  CycleSkipTake(pat, left, WINDOW_SIZE)

\* Variant: the window starts WINDOW_SIZE, not WINDOW_SIZE / 2, sets back.
window_uncentered(pat, p) ==
    LET pat_len == Len(pat)
        left == (p - WINDOW_SIZE) % pat_len
    IN  CycleSkipTake(pat, left, WINDOW_SIZE)

\* rem_euclid by a positive length is TLA+'s %.
window(pat, p) ==
    LET pat_len == Len(pat)
        left == (p - WINDOW_SIZE \div 2) % pat_len
    IN  CycleSkipTake(pat, left, WINDOW_SIZE)

\* Variant: no wrap at the end of the pattern.
next_pos_stuck(pat, p) == IF p + 1 >= Len(pat) THEN p ELSE p + 1

next_pos(pat, p) == (p + 1) % Len(pat)

\* slice.iter().enumerate().find_map(|(idx, x)| if x.is_stale() { None }
\* else { Some(idx) }) over the 1-based sequence s: the 0-based offset of the
\* first entry that is not Stale.
FirstActivated(s) ==
    IF \A i \in 1..Len(s) : is_stale(s[i])
    THEN None
    ELSE Some((CHOOSE i \in 1..Len(s) :
                  /\ ~is_stale(s[i])
                  /\ \A j \in 1..(i - 1) : is_stale(s[j])) - 1)

\* probe_res[WINDOW_SIZE / 2 ..]
SecondHalf(probes) == SubSeq(probes, WINDOW_SIZE \div 2 + 1, Len(probes))

\* probe_res[.. WINDOW_SIZE / 2]
FirstHalf(probes) == SubSeq(probes, 1, WINDOW_SIZE \div 2)

\* Variant: the first half of the probe vector is searched first.
recover_next_first_half_first(pat, p, probes) ==
    LET after == FirstActivated(SecondHalf(probes))
        before == FirstActivated(FirstHalf(probes))
    IN  IF before # None
        THEN Ok((p - (WINDOW_SIZE \div 2 - before[1]) + 1) % Len(pat))
        ELSE IF after # None
        THEN Ok((p + after[1] + 1) % Len(pat))
        ELSE Err("ERROR: Cannot recover position")

\* Variant: with no activation, the next position is assumed.
recover_next_lenient(pat, p, probes) ==
    LET after == FirstActivated(SecondHalf(probes))
        before == FirstActivated(FirstHalf(probes))
    IN  IF after # None
        THEN Ok((p + after[1] + 1) % Len(pat))
        ELSE IF before # None
        THEN Ok((p - (WINDOW_SIZE \div 2 - before[1]) + 1) % Len(pat))
        ELSE Ok(next_pos(pat, p))

recover_next(pat, p, probes) ==
    LET after == FirstActivated(SecondHalf(probes))
        before == FirstActivated(FirstHalf(probes))
    IN  IF after # None
        THEN Ok((p + after[1] + 1) % Len(pat))
        ELSE IF before # None
        THEN Ok((p - (WINDOW_SIZE \div 2 - before[1]) + 1) % Len(pat))
        ELSE Err("ERROR: Cannot recover position")

---------------------------------------------------------------------------
(* Pattern::find *)

\* Variant: only the first chunk is tallied.
pattern_to_rec_first_chunk(pat) ==
    LET chunk_len == Len(pat) \div REPEATINGS
        At(j) == {i \in 1..chunk_len : pat[i] # None /\ (i - 1) % chunk_len = j - 1}
    IN  [j \in 1..chunk_len |->
            [v \in {pat[i][1] : i \in At(j)} |->
                Cardinality({i \in At(j) : pat[i] = Some(v)})]]

\* A HashMap<ColoredSetCode, usize> is a function from its keys to their
\* counts. pattern_to_rec tallies, for each position of a chunk, the colored
\* set codes recorded at that position (i % chunk_len, i 0-based); None
\* entries are skipped. The traces of this model hold a multiple of
\* REPEATINGS entries, as locate_rx_round records them.
pattern_to_rec(pat) ==
    LET chunk_len == Len(pat) \div REPEATINGS
        At(j) == {i \in 1..Len(pat) : pat[i] # None /\ (i - 1) % chunk_len = j - 1}
    IN  [j \in 1..chunk_len |->
            [v \in {pat[i][1] : i \in At(j)} |->
                Cardinality({i \in At(j) : pat[i] = Some(v)})]]

\* Variant: the uniqueness of the maximum is not checked.
get_max_repeating_no_tie_check(hm) ==
    IF DOMAIN hm = {}
    THEN None
    ELSE Some(CHOOSE c \in DOMAIN hm : \A c1 \in DOMAIN hm : hm[c1] <= hm[c])

\* max_by_key returns one of the keys with the greatest count (which one
\* depends on the HashMap's iteration order); whenever there are several the
\* uniqueness check fails for each of them, so the result does not depend on
\* the choice.
get_max_repeating(hm) ==
    IF DOMAIN hm = {}
    THEN None
    ELSE LET colored_set_code ==
                 CHOOSE c \in DOMAIN hm : \A c1 \in DOMAIN hm : hm[c1] <= hm[c]
             cnt == hm[colored_set_code]
         IN  IF \E cc \in DOMAIN hm : cnt = hm[cc] /\ cc # colored_set_code
             THEN None
             ELSE Some(colored_set_code)

\* rec.into_iter().map(get_max_repeating).collect::<Option<Vec<_>>>(): None as
\* soon as one position yields None.
pat_from_rec(record) ==
    IF \E j \in 1..Len(record) : get_max_repeating(record[j]) = None
    THEN None
    ELSE Some([j \in 1..Len(record) |-> get_max_repeating(record[j])[1]])

\* fnd_pts holds the colors whose trace gave a pattern.
find(pats) ==
    LET fnd_pts == {c \in DOMAIN pats : pat_from_rec(pattern_to_rec(pats[c])) # None}
    IN  IF Cardinality(fnd_pts) # 1
        THEN Err("ERROR: Cannot decide on pattern")
        ELSE LET color_code == CHOOSE c \in fnd_pts : TRUE
                 pat == pat_from_rec(pattern_to_rec(pats[color_code]))[1]
             IN  Ok([j \in 1..Len(pat) |-> <<color_code, pat[j]>>])

---------------------------------------------------------------------------
(* TrackingContext *)

NoSync == "NoSync"

Hit == "Hit"

Miss == "Miss"

\* #[derive(Default)]: every field at its type's default.
TrackingContext_default ==
    [pos |-> 0, sync_status |-> NoSync, should_send |-> FALSE,
     is_injected |-> FALSE, unsynced |-> 0]

\* Variant: the initial position is dropped.
new_ignores_init(init_pos) == TrackingContext_default

TrackingContext_new(init_pos) ==
    [TrackingContext_default EXCEPT !.pos = init_pos]

\* Variant: a packet is injected one unsynced measurement earlier.
should_inject_early(c) == c.unsynced > 1 \/ c.should_send

should_inject(c) == c.unsynced > 2 \/ c.should_send

\* Variant: the injection is not remembered.
inject_forgotten(c) == c

inject(c) == [c EXCEPT !.is_injected = TRUE]

is_injected(c) == c.is_injected

sync_status(c) == c.sync_status

sync_hit(c, next) ==
    [c EXCEPT !.pos = next, !.unsynced = 0, !.should_send = FALSE,
              !.sync_status = Hit]

\* Variant: a miss resets the unsynced counter, as a hit does.
sync_miss_resets_unsynced(c, recovered_pos) ==
    [c EXCEPT !.pos = recovered_pos, !.unsynced = 0, !.should_send = TRUE,
              !.sync_status = Miss]

sync_miss(c, recovered_pos) ==
    [c EXCEPT !.pos = recovered_pos, !.should_send = TRUE,
              !.sync_status = Miss]

unsynced_meaurement(c) ==
    [c EXCEPT !.unsynced = @ + 1, !.should_send = FALSE,
              !.sync_status = NoSync]

---------------------------------------------------------------------------
(* TimingClassifier (rpp/timing_classif.rs). A CacheTiming is a record of  *)
(* its variant and its time; a Histogram<u64> is the bag of the recorded   *)
(* values (with 5 significant digits a value below 2^18 is its own bucket, *)
(* so the bag is exact for the times used here).                           *)

PERCENTILE == 50

CacheHit(t) == [kind |-> "Hit", time |-> t]

CacheMiss(t) == [kind |-> "Miss", time |-> t]

timing_is_hit(timing) == timing.kind = "Hit"

timing_is_miss(timing) == timing.kind = "Miss"

Abs(x) == IF x < 0 THEN -x ELSE x

\* How many recorded values of histogram h are at most v.
CountUpTo(h, v) == BagCardinality([u \in {w \in DOMAIN h : w <= v} |-> h[u]])

\* Histogram::value_at_percentile: the least recorded value at which the
\* running count reaches ceil(percentile / 100 * total), at least 1; 0 for
\* an empty histogram.
value_at_percentile(h, percentile) ==
    LET total == BagCardinality(h)
        scaled == percentile * total
        ceiled == (scaled + 99) \div 100
        count_at_percentile == IF ceiled = 0 THEN 1 ELSE ceiled
        reached == {v \in DOMAIN h : CountUpTo(h, v) >= count_at_percentile}
    IN  IF reached = {} THEN 0
        ELSE CHOOSE v \in reached : \A u \in reached : v <= u

TimingClassifier_new ==
    [hits |-> EmptyBag, misses |-> EmptyBag, hit_centroid |-> 0,
     miss_centroid |-> 0]

record(c, timing) ==
    IF timing_is_hit(timing)
    THEN LET h == c.hits (+) SetToBag({timing.time}) IN
         [c EXCEPT !.hits = h,
                   !.hit_centroid = value_at_percentile(h, PERCENTILE)]
    ELSE LET m == c.misses (+) SetToBag({timing.time}) IN
         [c EXCEPT !.misses = m,
                   !.miss_centroid = value_at_percentile(m, PERCENTILE)]

\* Variant: a tie goes to the miss cluster.
classify_tie_to_miss(c, t) ==
    IF Abs(c.miss_centroid - t) <= Abs(c.hit_centroid - t)
    THEN CacheMiss(t) ELSE CacheHit(t)

classify(c, t) ==
    IF Abs(c.miss_centroid - t) < Abs(c.hit_centroid - t)
    THEN CacheMiss(t) ELSE CacheHit(t)

is_hit(c, t) == timing_is_hit(classify(c, t))

is_miss(c, t) == timing_is_miss(classify(c, t))

---------------------------------------------------------------------------
(* The values a variable holds while its operation has not run *)

Unset == Err("")

NoPatterns == <<>>

\* A pattern whose i-th entry (0-based) is SetCode(c, i): what locate_rx
\* stores for color c.
IdentityPattern(c, len) == [i \in 1..len |-> <<c, i - 1>>]

\* The pattern of window_test and recover_test: SetCode(x, 1) for x in 0..9.
TestPattern == [i \in 1..10 |-> <<i - 1, 1>>]

PatternInputs == {IdentityPattern(0, len) : len \in 1..MaxPatLen} \cup {TestPattern}

\* Positions handed to the pattern operations: every index of the pattern,
\* and the length itself (get_init_pos returns 1 whatever the length).
PosInputs(pat) == 0..Len(pat)

ProbeInputs == [1..WINDOW_SIZE -> {Activated, Stale}]

\* No call of measure is under way.
MeasureIdle ==
    /\ pc = "idle"
    /\ round = 0
    /\ m_cnt = 0
    /\ sent = FALSE
    /\ m_log = <<>>
    /\ saved = <<>>
    /\ last_rec = <<>>

\* The classifier is as constructed and nothing was asked of it.
ClassifierIdle ==
    /\ classifier = TimingClassifier_new
    /\ cl_mode = "idle"
    /\ verdict = None

\* No eviction set is stored and no Rpp operation has run.
RppIdle ==
    /\ colored_sets = <<>>
    /\ set_code = <<0, 0>>
    /\ cand = <<>>
    /\ replies = <<>>
    /\ calls = <<>>
    /\ rpp_res = Unset

\* No Rpp is under construction.
BuildIdle ==
    /\ cparams = <<>>
    /\ params = <<>>
    /\ quite = FALSE
    /\ addrs = <<>>
    /\ build_pc = "idle"
    /\ b_err_cnt = 0
    /\ cur_set = <<>>
    /\ variant = 0
    /\ new_sets = <<>>
    /\ faults = 0

TrackIdle ==
    /\ t_pc = "idle"
    /\ t_err_cnt = 0
    /\ t_err = ""
    /\ locate_tries = 0
    /\ locate_fails = 0
    /\ measure_tries = 0
    /\ measure_fails = 0
    /\ track_res = Unset

InitPosIdle ==
    /\ g_pc = "idle"
    /\ g_err_cnt = 0
    /\ g_log = <<>>
    /\ g_res = Unset

LocateIdle ==
    /\ l_pc = "idle"
    /\ l_color = 0
    /\ l_rep = 0
    /\ l_idx = 0
    /\ l_trace = <<>>
    /\ l_log = <<>>
    /\ l_act = 0
    /\ l_hot = <<>>
    /\ l_res = Unset

TrainIdle ==
    /\ trn_pc = "idle"
    /\ trn_left = <<>>
    /\ trn_miss = 0
    /\ trn_log = <<>>

RefreshIdle ==
    /\ trained = <<>>
    /\ r_iters = 0

SelectIdle ==
    /\ fs_pc = "idle"
    /\ fs_idx = 0
    /\ fs_addr = 0
    /\ fs_env = <<>>
    /\ fs_res = <<>>

InitialIdle ==
    /\ bi_pc = "idle"
    /\ bi_pools = <<>>
    /\ bi_seed = 0
    /\ bi_env = <<>>
    /\ bi_res = <<>>

BackIdle ==
    /\ bs_pc = "idle"
    /\ bs_in = <<>>
    /\ bs_s = <<>>
    /\ bs_x = 0
    /\ bs_env = <<>>
    /\ bs_k = 0
    /\ bs_res = Unset

RetryIdle == m_base = 0

LateIdle == InitialIdle /\ BackIdle /\ RetryIdle

MoreIdle ==
    InitPosIdle /\ LocateIdle /\ TrainIdle /\ RefreshIdle /\ SelectIdle
        /\ LateIdle

RestIdle ==
    /\ MeasureIdle
    /\ ClassifierIdle
    /\ RppIdle
    /\ BuildIdle
    /\ TrackIdle
    /\ MoreIdle

---------------------------------------------------------------------------
(* Specification SpecPattern: the pure operations of a Pattern. Init draws *)
(* the pattern; each operation is applied to it once, with every argument  *)
(* within the bounds.                                                      *)

InitPattern ==
    /\ op = "init"
    /\ pattern \in PatternInputs
    /\ pos = 0
    /\ probe_res = <<>>
    /\ win = <<>>
    /\ rec = Unset
    /\ walk_start = 0
    /\ walk_steps = 0
    /\ walk_seen = <<>>
    /\ patterns = NoPatterns
    /\ found = Unset
    /\ ctx = TrackingContext_default
    /\ arg = 0
    /\ RestIdle

Window ==
    /\ op = "init"
    /\ \E p \in PosInputs(pattern) :
        /\ pos' = p
        /\ win' = window(pattern, p)
    /\ op' = "window"
    /\ probe_res' = <<>>
    /\ rec' = Unset
    /\ walk_start' = 0
    /\ walk_steps' = 0
    /\ walk_seen' = <<>>
    /\ UNCHANGED <<pattern, patterns, found, ctx, arg, restVars>>

RecoverNext ==
    /\ op = "init"
    /\ \E p \in PosInputs(pattern) : \E probes \in ProbeInputs :
        /\ pos' = p
        /\ probe_res' = probes
        /\ rec' = recover_next(pattern, p, probes)
    /\ op' = "recover_next"
    /\ win' = <<>>
    /\ walk_start' = 0
    /\ walk_steps' = 0
    /\ walk_seen' = <<>>
    /\ UNCHANGED <<pattern, patterns, found, ctx, arg, restVars>>

\* A walk along next_pos starts at a position of the pattern ...
WalkStart ==
    /\ op = "init"
    /\ \E p \in 0..(Len(pattern) - 1) :
        /\ pos' = p
        /\ walk_start' = p
    /\ op' = "walk"
    /\ walk_steps' = 0
    /\ walk_seen' = <<>>
    /\ probe_res' = <<>>
    /\ win' = <<>>
    /\ rec' = Unset
    /\ UNCHANGED <<pattern, patterns, found, ctx, arg, restVars>>

\* ... and applies next_pos once per step, for one turn of the pattern.
NextPos ==
    /\ op = "walk"
    /\ walk_steps < Len(pattern)
    /\ pos' = next_pos(pattern, pos)
    /\ walk_steps' = walk_steps + 1
    /\ walk_seen' = Append(walk_seen, pos')
    /\ UNCHANGED <<op, pattern, probe_res, win, rec, walk_start, patterns,
                   found, ctx, arg, restVars>>

NextPattern == Window \/ RecoverNext \/ WalkStart \/ NextPos

SpecPattern == InitPattern /\ [][NextPattern]_vars

---------------------------------------------------------------------------
(* Specification SpecFind: Pattern::find applied to the traces of 0 to     *)
(* MaxColors colors.                                                       *)

Colors == 0..(MaxColors - 1)

Entries == {None} \cup {Some(v) : v \in 0..(MaxCode - 1)}

RECURSIVE Repeat(_, _)
Repeat(chunk, k) == IF k = 0 THEN <<>> ELSE chunk \o Repeat(chunk, k - 1)

\* A trace of REPEATINGS chunks: chunk A in the first a passes, chunk B in the
\* others (B is A perturbed, or the other way round; a = REPEATINGS \div 2
\* gives ties).
TwoPhaseTrace(A, B, a) == Repeat(A, a) \o Repeat(B, REPEATINGS - a)

\* The traces whose chunks have a length in lens and whose first phase has a
\* number of passes in splits.
TwoPhaseTraces(lens, splits) ==
    UNION {{TwoPhaseTrace(A, B, a) : A \in [1..n -> Entries],
                                     B \in [1..n -> Entries],
                                     a \in splits} : n \in lens}

\* Rich traces: the two phases of any length.
RichTraces(lens) == TwoPhaseTraces(lens, 0..REPEATINGS)

\* Small traces: all passes alike, or the two halves different.
SmallTraces(lens) == TwoPhaseTraces(lens, {REPEATINGS \div 2, REPEATINGS})

\* The input of the test pattern_finding: color 0, 8 passes over 4 sets.
TestMeasurements ==
    <<Some(1), Some(9), Some(3), Some(4), Some(1), Some(2), Some(3), Some(4),
      Some(1), Some(2), None,    Some(4), Some(1), Some(2), Some(3), Some(4),
      Some(8), Some(2), Some(4), Some(4), Some(1), Some(2), Some(3), Some(4),
      Some(1), None,    Some(3), Some(4), Some(1), Some(2), Some(3), None>>

\* Every set of colors with small traces, color 0 alone with rich traces,
\* and the input of the test.
FindInputs(colors) ==
    UNION {[cs -> SmallTraces({1})] : cs \in SUBSET colors}
    \cup [{0} -> RichTraces(0..MaxChunkLen)]
    \cup {[c \in {0} |-> TestMeasurements]}

InitFind ==
    /\ op = "init"
    /\ patterns \in FindInputs(Colors)
    /\ found = Unset
    /\ pattern = <<>>
    /\ pos = 0
    /\ probe_res = <<>>
    /\ win = <<>>
    /\ rec = Unset
    /\ walk_start = 0
    /\ walk_steps = 0
    /\ walk_seen = <<>>
    /\ ctx = TrackingContext_default
    /\ arg = 0
    /\ RestIdle

Find ==
    /\ op = "init"
    /\ op' = "find"
    /\ found' = find(patterns)
    /\ UNCHANGED <<pattern, pos, probe_res, win, rec, walk_start, walk_steps,
                   walk_seen, patterns, ctx, arg, restVars>>

NextFind == Find

SpecFind == InitFind /\ [][NextFind]_vars

---------------------------------------------------------------------------
(* Specification SpecCtx: a TrackingContext under every sequence of its    *)
(* operations.                                                             *)

InitCtx ==
    /\ op = "new"
    /\ arg \in 0..MaxPos
    /\ ctx = TrackingContext_new(arg)
    /\ pattern = <<>>
    /\ pos = 0
    /\ probe_res = <<>>
    /\ win = <<>>
    /\ rec = Unset
    /\ walk_start = 0
    /\ walk_steps = 0
    /\ walk_seen = <<>>
    /\ patterns = NoPatterns
    /\ found = Unset
    /\ RestIdle

CtxFrame ==
    UNCHANGED <<pattern, pos, probe_res, win, rec, walk_start, walk_steps,
                walk_seen, patterns, found, restVars>>

\* measure creates a fresh context on each call.
New ==
    /\ \E init_pos \in 0..MaxPos :
        /\ arg' = init_pos
        /\ ctx' = TrackingContext_new(init_pos)
    /\ op' = "new"
    /\ CtxFrame

Inject ==
    /\ ctx' = inject(ctx)
    /\ op' = "inject"
    /\ arg' = 0
    /\ CtxFrame

SyncHit ==
    /\ \E next \in 0..MaxPos :
        /\ arg' = next
        /\ ctx' = sync_hit(ctx, next)
    /\ op' = "sync_hit"
    /\ CtxFrame

SyncMiss ==
    /\ \E recovered_pos \in 0..MaxPos :
        /\ arg' = recovered_pos
        /\ ctx' = sync_miss(ctx, recovered_pos)
    /\ op' = "sync_miss"
    /\ CtxFrame

UnsyncedMeasurement ==
    /\ ctx.unsynced < MaxUnsynced
    /\ ctx' = unsynced_meaurement(ctx)
    /\ op' = "unsynced_meaurement"
    /\ arg' = 0
    /\ CtxFrame

NextCtx == New \/ Inject \/ SyncHit \/ SyncMiss \/ UnsyncedMeasurement

SpecCtx == InitCtx /\ [][NextCtx]_vars

---------------------------------------------------------------------------
(* Claims about Pattern::window, next_pos and recover_next (SpecPattern)   *)

\* The 0-based indices of the probe vector that hold an activation.
ActivatedAt == {w \in 0..(Len(probe_res) - 1) : probe_res[w + 1] = Activated}

Min(S) == CHOOSE x \in S : \A y \in S : x <= y

\* The element of the pattern at the 0-based index i taken modulo its length.
PatternAt(i) == pattern[(i % Len(pattern)) + 1]

\* C1: for a non-empty pattern of length L and pos in 0..L-1, window(pos)
\* yields exactly WINDOW_SIZE set codes, the k-th (0-based) being
\* pattern[(pos - WINDOW_SIZE/2 + k) mod L]; pattern[pos] is at window index
\* 5; for the pattern 0..9 and pos 2 the window is 7,8,9,0,1,2,3,4,5,6.
C1_WindowCentred ==
    (op = "window" /\ pos < Len(pattern)) =>
        /\ Len(win) = WINDOW_SIZE
        /\ \A k \in 0..(WINDOW_SIZE - 1) :
               win[k + 1] = PatternAt(pos - WINDOW_SIZE \div 2 + k)
        /\ win[5 + 1] = pattern[pos + 1]
        /\ (pattern = TestPattern /\ pos = 2) =>
               [k \in 1..WINDOW_SIZE |-> win[k][1]] = <<7, 8, 9, 0, 1, 2, 3, 4, 5, 6>>

C1_Witness == op = "window" /\ pattern = TestPattern /\ pos = 2

\* C2, as stated: for every position p and every k in 1..WINDOW_SIZE,
\* window(p) has WINDOW_SIZE elements and
\* window(p)[WINDOW_SIZE - k] = pattern[(p - k) mod L].
C2_AsStated ==
    op = "window" =>
        /\ Len(win) = WINDOW_SIZE
        /\ \A k \in 1..WINDOW_SIZE :
               win[WINDOW_SIZE - k + 1] = PatternAt(pos - k)

\* C2, amended: for every non-empty pattern, every position p and every k in
\* 1..WINDOW_SIZE, window(p) has WINDOW_SIZE elements and
\* window(p)[WINDOW_SIZE - k] = pattern[(p + WINDOW_SIZE/2 - k) mod L].
C2_WindowFromEnd ==
    op = "window" =>
        /\ Len(win) = WINDOW_SIZE
        /\ \A k \in 1..WINDOW_SIZE :
               win[WINDOW_SIZE - k + 1] = PatternAt(pos + WINDOW_SIZE \div 2 - k)

\* A window that wraps: the pattern is shorter than the window.
C2_Witness == op = "window" /\ Len(pattern) = 3 /\ pos = 1

C4_RecoverReturnsActivatedSlot ==
    (op = "recover_next" /\ Cardinality(ActivatedAt) = 1) =>
        LET w == Min(ActivatedAt)
        IN  rec = Ok((pos - WINDOW_SIZE \div 2 + w) % Len(pattern))

\* C5: recover_next returns an error for every pos when all WINDOW_SIZE probe
\* results are Stale, and Ok whenever at least one is Activated.
C5_RecoverErrIffAllStale ==
    op = "recover_next" =>
        /\ Len(probe_res) = WINDOW_SIZE
        /\ rec.ok <=> (ActivatedAt # {})
        /\ ~rec.ok => rec = Err("ERROR: Cannot recover position")

C5_Witness ==
    /\ op = "recover_next"
    /\ pattern = TestPattern
    /\ pos = 2
    /\ ActivatedAt = {}
    /\ ~rec.ok

\* C6: next_pos(pos) = (pos + 1) mod L: from any position p, L applications
\* of next_pos visit every position exactly once and return to p.
C6_NextPosCycles ==
    op = "walk" =>
        LET L == Len(pattern)
        IN  /\ Len(walk_seen) = walk_steps
            /\ \A i \in 1..walk_steps : walk_seen[i] = (walk_start + i) % L
            /\ \A i, j \in 1..walk_steps : walk_seen[i] = walk_seen[j] => i = j
            /\ walk_steps = L =>
                /\ pos = walk_start
                /\ {walk_seen[i] : i \in 1..L} = 0..(L - 1)

C6_Witness ==
    /\ op = "walk"
    /\ Len(pattern) = MaxPatLen
    /\ walk_start = 4
    /\ walk_steps = Len(pattern)

---------------------------------------------------------------------------
(* Claims about Pattern::find (SpecFind)                                   *)

\* The length of the REPEATINGS equal chunks of a trace.
ChunkLen(trace) == Len(trace) \div REPEATINGS

\* The colored set codes a trace records.
Recorded(trace) == {trace[i][1] : i \in {j \in 1..Len(trace) : trace[j] # None}}

\* How many of the REPEATINGS chunks hold Some(v) at the 0-based position i.
Occurrences(trace, i, v) ==
    Cardinality({k \in 0..(REPEATINGS - 1) :
                    trace[k * ChunkLen(trace) + i + 1] = Some(v)})

\* The codes that occur at position i, and strictly more often than any other.
StrictMajority(trace, i) ==
    {v \in Recorded(trace) :
        /\ Occurrences(trace, i, v) > 0
        /\ \A w \in Recorded(trace) \ {v} :
               Occurrences(trace, i, v) > Occurrences(trace, i, w)}

\* A color is decided when every chunk position has a strict majority.
Decided(trace) ==
    \A i \in 0..(ChunkLen(trace) - 1) : StrictMajority(trace, i) # {}

MajorityPattern(c, trace) ==
    [j \in 1..ChunkLen(trace) |->
        <<c, CHOOSE v \in StrictMajority(trace, j - 1) : TRUE>>]

\* C7: for an input with a single color c whose trace has REPEATINGS chunks
\* of equal length n, if at every chunk position i one colored index v_i
\* occurs strictly more often across the chunks than any other (None not
\* counted), find returns [SetCode(c, v_0), ..., SetCode(c, v_{n-1})], of
\* length n, whatever the perturbed or missing entries.
C7_FindMajorityPattern ==
    (op = "find" /\ Cardinality(DOMAIN patterns) = 1) =>
        \A c \in DOMAIN patterns :
            Decided(patterns[c]) =>
                /\ found = Ok(MajorityPattern(c, patterns[c]))
                /\ Len(found.val) = ChunkLen(patterns[c])

\* The test pattern_finding: perturbed and missing entries, pattern 1,2,3,4.
C7_Witness ==
    /\ op = "find"
    /\ patterns = [c \in {0} |-> TestMeasurements]
    /\ found = Ok(<<(<<0, 1>>), (<<0, 2>>), (<<0, 3>>), (<<0, 4>>)>>)

\* C8: find returns Ok if and only if exactly one color of the input has a
\* strictly unique most-frequent colored index at every chunk position; a
\* color with a tie for the maximum or with no activation at some position
\* is discarded; with zero or at least two colors left find fails with the
\* 'cannot decide on pattern' error.
C8_FindOkIffOneDecided ==
    op = "find" =>
        LET decided == {c \in DOMAIN patterns : Decided(patterns[c])}
        IN  /\ found.ok <=> (Cardinality(decided) = 1)
            /\ found.ok =>
                   \A c \in decided : found.val = MajorityPattern(c, patterns[c])
            /\ ~found.ok => found = Err("ERROR: Cannot decide on pattern")

\* Two colors: color 0 has a tie (four passes 0, four passes 1) and is
\* discarded, color 1 is decided.
C8_Witness ==
    /\ op = "find"
    /\ DOMAIN patterns = {0, 1}
    /\ patterns[0] = TwoPhaseTrace(<<Some(0)>>, <<Some(1)>>, REPEATINGS \div 2)
    /\ patterns[1] = TwoPhaseTrace(<<Some(1)>>, <<None>>, REPEATINGS \div 2)
    /\ found = Ok(<<(<<1, 1>>)>>)

---------------------------------------------------------------------------
(* Claims about the TrackingContext (SpecCtx)                              *)

\* C9: a TrackingContext freshly created by new(init) has pos = init,
\* sync_status = NoSync, unsynced = 0, is_injected = false and should_send =
\* false, so should_inject() is false.
C9_FreshContext ==
    op = "new" =>
        /\ ctx.pos = arg
        /\ ctx.sync_status = NoSync
        /\ ctx.unsynced = 0
        /\ ctx.is_injected = FALSE
        /\ ctx.should_send = FALSE
        /\ ~should_inject(ctx)

\* A context created anew with a position other than the default.
C9_Witness == op = "new" /\ arg = MaxPos /\ ctx.pos = MaxPos

\* C10: each transition changes exactly the fields listed: sync_hit(next)
\* sets pos, unsynced := 0, should_send := false, sync_status := Hit;
\* sync_miss(rec) sets pos, should_send := true, sync_status := Miss and
\* leaves unsynced; unsynced_measurement increments unsynced, clears
\* should_send, sets NoSync and leaves pos; inject only sets is_injected;
\* none of the three sync transitions changes is_injected.
C10_TransitionFrames ==
    [][/\ op' = "sync_hit" =>
            ctx' = [pos |-> arg', unsynced |-> 0, should_send |-> FALSE,
                    sync_status |-> Hit, is_injected |-> ctx.is_injected]
       /\ op' = "sync_miss" =>
            ctx' = [pos |-> arg', unsynced |-> ctx.unsynced,
                    should_send |-> TRUE, sync_status |-> Miss,
                    is_injected |-> ctx.is_injected]
       /\ op' = "unsynced_meaurement" =>
            ctx' = [pos |-> ctx.pos, unsynced |-> ctx.unsynced + 1,
                    should_send |-> FALSE, sync_status |-> NoSync,
                    is_injected |-> ctx.is_injected]
       /\ op' = "inject" =>
            ctx' = [pos |-> ctx.pos, unsynced |-> ctx.unsynced,
                    should_send |-> ctx.should_send,
                    sync_status |-> ctx.sync_status, is_injected |-> TRUE]
      ]_vars

\* A sync_miss on an injected context that has counted unsynced measurements.
C10_Witness ==
    /\ op = "sync_miss"
    /\ ctx.is_injected
    /\ ctx.unsynced = 3
    /\ ctx.pos = 2

---------------------------------------------------------------------------
(* Specification SpecMeasure: one call of OnlineTracker::measure, step by  *)
(* step. The connector, the socket and the output are the environment:    *)
(* each of their calls either fails or succeeds, and a probe yields any    *)
(* vector within the bounds.                                               *)

has_activation(probes) == \E i \in 1..Len(probes) : is_activated(probes[i])

MaxRounds == 5

MaxActivations == 1

MaxProbes == 3

\* The probe vectors of a round: at most MaxActivations sets activated.
MeasureProbes(k) ==
    {v \in ProbeInputs : Cardinality({i \in 1..WINDOW_SIZE : is_activated(v[i])}) <= k}

\* The patterns measure runs on: one shorter than the window, one longer.
MeasurePatterns ==
    {IdentityPattern(0, len) : len \in {WINDOW_SIZE \div 2, MaxPatLen}}

MeasureRest ==
    /\ pattern \in MeasurePatterns
    /\ pc = "idle"
    /\ round = 0
    /\ sent = FALSE
    /\ m_log = <<>>
    /\ saved = <<>>
    /\ last_rec = <<>>
    /\ ctx = TrackingContext_default
    /\ probe_res = <<>>
    /\ win = <<>>
    /\ pos = 0
    /\ rec = Unset
    /\ walk_start = 0
    /\ walk_steps = 0
    /\ walk_seen = <<>>
    /\ patterns = NoPatterns
    /\ found = Unset
    /\ arg = 0
    /\ ClassifierIdle
    /\ RppIdle
    /\ BuildIdle
    /\ MoreIdle

InitMeasure ==
    /\ op = "measure"
    /\ m_cnt \in {0, MaxRounds}
    /\ TrackIdle
    /\ MeasureRest

MeasureFrame ==
    UNCHANGED <<op, pattern, pos, rec, walk_start, walk_steps, walk_seen,
                patterns, found, arg, m_cnt, classifierVars, rppVars,
                buildVars, trackVars,
                moreVars>>

\* The head of the for loop: another round, or the return of Ok(()).
ForHead(done) == IF done < m_cnt THEN "prime" ELSE "done"

\* let init_pos = self.get_init_pos()?; TrackingContext::new(init_pos).
\* get_init_pos returns Ok(1) or an error.
GetInitPos ==
    /\ pc = "idle"
    /\ \/ /\ ctx' = TrackingContext_new(1)
          /\ pc' = ForHead(0)
       \/ /\ pc' = "err"
          /\ UNCHANGED ctx
    /\ UNCHANGED <<round, sent, probe_res, win, m_log, saved, last_rec>>
    /\ MeasureFrame

\* es = window(ctx.pos()); prime_all(&es)?
PrimeAll ==
    /\ pc = "prime"
    /\ win' = window(pattern, ctx.pos)
    /\ sent' = FALSE
    /\ m_log' = Append(m_log, "prime_all")
    /\ pc' \in {"inject", "err"}
    /\ UNCHANGED <<round, ctx, probe_res, saved, last_rec>>
    /\ MeasureFrame

\* if ctx.should_inject() { self.send_packet()?; ctx.inject(); }
SendPacket ==
    /\ pc = "inject"
    /\ IF should_inject(ctx)
         THEN \/ /\ sent' = TRUE
                 /\ ctx' = inject(ctx)
                 /\ m_log' = m_log \o <<"send_packet", "inject">>
                 /\ pc' = "probe"
              \/ /\ pc' = "err"
                 /\ m_log' = Append(m_log, "send_packet")
                 /\ UNCHANGED <<sent, ctx>>
         ELSE /\ pc' = "probe"
              /\ UNCHANGED <<sent, ctx, m_log>>
    /\ UNCHANGED <<round, probe_res, win, saved, last_rec>>
    /\ MeasureFrame

\* Variant: the loop is left on an activation only.
round_over_on_activation(probes, c) == has_activation(probes)

\* if has_activation(&probe_res) || ctx.is_injected() { break; }
round_over(probes, c) == has_activation(probes) \/ is_injected(c)

\* How often a call occurs in a log.
Count(log, call) == Cardinality({i \in 1..Len(log) : log[i] = call})

\* probe_res = probe_all(&es)?; break on an activation or after injection.
\* The loop is followed for MaxProbes turns: then the probe that ends it
\* is taken.
ProbeAll ==
    /\ pc = "probe"
    /\ m_log' = Append(m_log, "probe_all")
    /\ \/ \E v \in MeasureProbes(MaxActivations) :
             /\ round_over(v, ctx) \/ Count(m_log, "probe_all") + 1 < MaxProbes
             /\ probe_res' = v
             /\ pc' = IF round_over(v, ctx) THEN "classify" ELSE "inject"
       \/ /\ pc' = "err"
          /\ UNCHANGED probe_res
    /\ UNCHANGED <<round, sent, ctx, win, saved, last_rec>>
    /\ MeasureFrame

\* The if / else if / else after the loop. probe_res[ctx.pos()] indexes
\* the probe vector by the position in the pattern: beyond the vector it
\* panics.
Classify ==
    /\ pc = "classify"
    /\ IF ctx.pos >= Len(probe_res)
         THEN /\ pc' = "panic"
              /\ UNCHANGED ctx
         ELSE IF is_activated(probe_res[ctx.pos + 1]) /\ is_injected(ctx)
         THEN /\ ctx' = sync_hit(ctx, next_pos(pattern, ctx.pos))
              /\ pc' = "save"
         ELSE IF is_injected(ctx)
         THEN LET r == recover_next(pattern, ctx.pos, probe_res) IN
              IF r.ok THEN /\ ctx' = sync_miss(ctx, r.val)
                           /\ pc' = "save"
                      ELSE /\ pc' = "err"
                           /\ UNCHANGED ctx
         ELSE /\ ctx' = unsynced_meaurement(ctx)
              /\ pc' = "save"
    /\ UNCHANGED <<round, sent, probe_res, win, m_log, saved, last_rec>>
    /\ MeasureFrame

\* Variant: the recorder keeps nothing.
save_nothing(out, probes, stat) == out

\* self.output.record((probes, stat, timestamp)) on a recorder that keeps
\* what it is given, as Vec does; the time stamp is left out.
save(out, probes, stat) == Append(out, [probes |-> probes, stat |-> stat])

\* What saved keeps of the records.
Brief(out) ==
    [i \in 1..Len(out) |-> [len |-> Len(out[i].probes), stat |-> out[i].stat]]

\* self.save(probe_res, ctx.sync_status(), elapsed)?, out being what the
\* call adds to the recorder, and the head of the for loop.
Save ==
    /\ pc = "save"
    /\ \/ \E out \in {save(<<>>, probe_res, sync_status(ctx))} :
             /\ last_rec' = IF out = <<>> THEN last_rec ELSE <<out[Len(out)]>>
             /\ saved' = saved \o Brief(out)
             /\ round' = round + 1
             /\ m_log' = <<>>
             /\ pc' = ForHead(round + 1)
       \/ /\ pc' = "err"
          /\ UNCHANGED <<round, m_log, saved, last_rec>>
    /\ UNCHANGED <<sent, ctx, probe_res, win>>
    /\ MeasureFrame

NextMeasure ==
    GetInitPos \/ PrimeAll \/ SendPacket \/ ProbeAll \/ Classify \/ Save

SpecMeasure == InitMeasure /\ [][NextMeasure]_vars

---------------------------------------------------------------------------
(* Claims about the rounds of measure (SpecMeasure)                        *)

\* C36: whenever the probe vector is indexed to test whether the expected
\* set was activated, the index ctx.pos is smaller than the length of the
\* probe vector, WINDOW_SIZE.
C36_ProbeIndexInBounds ==
    pc = "classify" => (Len(probe_res) = WINDOW_SIZE /\ ctx.pos < Len(probe_res))

\* A round has passed its injection step and its probe is about to be
\* taken: sent tells whether this round injected a packet, and sync_status
\* is still the classification of the round before.
InjectionDecided == pc = "probe"

C12_HitIffNextSlotActivated ==
    pc = "save" =>
        (sync_status(ctx) = Hit <=>
            (is_injected(ctx) /\ is_activated(probe_res[(Len(win) \div 2 + 1) + 1])))

\* The calls of the round in hand have been issued and their results are
\* about to be classified or saved.
RoundTaken == pc \in {"classify", "save"}

\* C22 (states): the recorder has been called once for each round that
\* ended, with a probe vector of WINDOW_SIZE results each time; a call of
\* measure that returned Ok has called it cnt times; the last record holds
\* the probe vector and the status of the round that ended last.
RecordPerRound ==
    /\ Len(saved) = round
    /\ pc = "done" => Len(saved) = m_cnt
    /\ \A i \in 1..Len(saved) : saved[i].len = WINDOW_SIZE
    /\ Len(last_rec) = IF round = 0 THEN 0 ELSE 1
    /\ (round > 0 /\ pc \in {"prime", "done"}) =>
            /\ last_rec[1] = [probes |-> probe_res, stat |-> sync_status(ctx)]
            /\ saved[round] = [len |-> Len(probe_res), stat |-> sync_status(ctx)]

\* C22 (steps): a record is emitted only by the save that ends a round, it
\* is added after the records of the rounds before, and it carries the
\* probe vector of the round and the status its transition has set; a step
\* that ends in an error emits nothing, and nothing follows it.
RecordSteps ==
    /\ pc \notin {"err", "panic", "done"}
    /\ <<saved, last_rec>>' # <<saved, last_rec>> =>
            /\ pc = "save"
            /\ pc' \in {"prime", "done"}
            /\ round' = round + 1
            /\ saved' = Append(saved, [len |-> WINDOW_SIZE,
                                       stat |-> sync_status(ctx)])
            /\ last_rec' = <<[probes |-> probe_res, stat |-> sync_status(ctx)]>>
    /\ pc' \in {"err", "panic"} => UNCHANGED <<saved, last_rec, round>>
    /\ pc = "classify" /\ pc' = "save" =>
            sync_status(ctx') = IF ~is_injected(ctx) THEN NoSync
                                ELSE IF is_activated(probe_res[ctx.pos + 1])
                                THEN Hit ELSE Miss

\* C22: a call of measure(cnt) that returns Ok has called the recorder
\* exactly cnt times, once at the end of each round and in the order of
\* the rounds, each record carrying the final probe vector of the round,
\* of WINDOW_SIZE results, and the sync_status its transition has set; a
\* round that ends in an error emits no record and aborts the call.
C22_OneRecordPerRound == [][RecordSteps]_vars /\ []RecordPerRound

\* measure has returned Ok after MaxRounds rounds, of which one was
\* recorded as a hit and one as a miss.
C22_Witness ==
    /\ pc = "done"
    /\ m_cnt = MaxRounds
    /\ Len(saved) = MaxRounds
    /\ \E i, j \in 1..Len(saved) : saved[i].stat = Hit /\ saved[j].stat = Miss

\* The calls of a round that has been taken: prime_all, then the probes
\* of the loop, the first one after send_packet and inject when a packet
\* was sent.
RoundCalls(n_probes, with_packet) ==
    <<"prime_all">>
    \o (IF with_packet THEN <<"send_packet", "inject">> ELSE <<>>)
    \o [i \in 1..n_probes |-> "probe_all"]

\* C23 (states): in a round, prime_all over the window at ctx.pos is the
\* first call and is issued once; after a packet is sent inject follows,
\* and then one probe_all before the round is classified; a round with
\* is_injected set takes exactly one probe_all.
CallsOfRound ==
    /\ pc = "prime" => m_log = <<>>
    /\ pc \in {"inject", "probe", "classify"} =>
            /\ m_log[1] = "prime_all"
            /\ Count(m_log, "prime_all") = 1
            /\ win = window(pattern, ctx.pos)
    /\ RoundTaken =>
            /\ \E n \in 1..MaxProbes : m_log = RoundCalls(n, sent)
            /\ is_injected(ctx) => Count(m_log, "probe_all") = 1
            /\ sent => is_injected(ctx)

\* C23 (steps): a packet is sent only when should_inject() holds, and
\* probe_all is repeated only while the last probe saw no activation and
\* nothing has been injected.
CallSteps ==
    /\ Count(m_log', "send_packet") > Count(m_log, "send_packet") =>
            should_inject(ctx)
    /\ (/\ Count(m_log', "probe_all") > Count(m_log, "probe_all")
        /\ Count(m_log, "probe_all") > 0) =>
            /\ ~has_activation(probe_res)
            /\ ~is_injected(ctx)

\* C23: in every round of measure prime_all over the window at ctx.pos
\* is issued exactly once and before any probe_all of the round; a packet
\* is sent only when should_inject() holds and is followed by inject() and
\* a probe_all before the round is classified; a round in which
\* is_injected is set takes exactly one probe_all after the send decision;
\* the loop repeats probe_all only while no activation is seen and
\* nothing has been injected.
C23_RoundCallOrder == [][CallSteps]_vars /\ []CallsOfRound

\* After rounds that repeated their probe, a round has sent a packet,
\* injected and probed once, and is about to be classified.
C23_Witness ==
    /\ pc = "classify"
    /\ sent
    /\ m_log = RoundCalls(1, TRUE)
    /\ round >= 3

\* C37 (state): unsynced never exceeds 3, and of the records of a run
\* exactly the first three carry NoSync, every later one Hit or Miss.
SyncedFromFourth ==
    /\ ctx.unsynced <= 3
    /\ \A i \in 1..Len(saved) :
            IF i <= 3 THEN saved[i].stat = NoSync
            ELSE saved[i].stat \in {Hit, Miss}
    /\ Len(saved) > 3 => is_injected(ctx)

\* C37 (steps): within a run of measure is_injected, once set, is never
\* cleared.
InjectedStays == is_injected(ctx) => is_injected(ctx')

---------------------------------------------------------------------------
(* Specification SpecClassifier: a TimingClassifier under every sequence   *)
(* of record calls within the bounds ("any"), and under the feed of 100    *)
(* hits of 100 ns followed by 100 misses of 400 ns ("feed"); classify,     *)
(* is_hit and is_miss are asked at any point.                              *)

MaxTime == 3

MaxSamples == 3

\* The timings a classification is asked for.
QueryTimes(mode) ==
    IF mode = "feed" THEN {100, 249, 250, 251, 400} ELSE 0..(MaxTime + 1)

\* Every variable outside the classifier at rest.
ClassifierRest ==
    /\ op = "classifier"
    /\ pattern = <<>>
    /\ pos = 0
    /\ probe_res = <<>>
    /\ win = <<>>
    /\ rec = Unset
    /\ walk_start = 0
    /\ walk_steps = 0
    /\ walk_seen = <<>>
    /\ patterns = NoPatterns
    /\ found = Unset
    /\ ctx = TrackingContext_default
    /\ arg = 0
    /\ MeasureIdle
    /\ RppIdle
    /\ BuildIdle
    /\ TrackIdle
    /\ MoreIdle

InitClassifier ==
    /\ classifier = TimingClassifier_new
    /\ cl_mode \in {"any", "feed"}
    /\ verdict = None
    /\ ClassifierRest

ClassifierFrame ==
    UNCHANGED <<op, pattern, pos, probe_res, win, rec, walk_start, walk_steps,
                walk_seen, patterns, found, ctx, arg, measureVars, cl_mode,
                rppVars, buildVars,
                trackVars, moreVars>>

\* record(Hit(t)) or record(Miss(t)) with any time within the bounds.
Record ==
    /\ cl_mode = "any"
    /\ \E t \in 0..MaxTime : \E timing \in {CacheHit(t), CacheMiss(t)} :
        /\ BagCardinality(IF timing_is_hit(timing) THEN classifier.hits
                                                   ELSE classifier.misses)
              < MaxSamples
        /\ classifier' = record(classifier, timing)
    /\ verdict' = None
    /\ ClassifierFrame

\* The feed: record(Hit(100)) 100 times, then record(Miss(400)) 100 times.
Feed ==
    /\ cl_mode = "feed"
    /\ BagCardinality(classifier.misses) < 100
    /\ classifier' = record(classifier,
            IF BagCardinality(classifier.hits) < 100
            THEN CacheHit(100) ELSE CacheMiss(400))
    /\ verdict' = None
    /\ ClassifierFrame

\* classify(t), is_hit(t) and is_miss(t) of the classifier as it stands.
Classification ==
    /\ \E t \in QueryTimes(cl_mode) :
        verdict' = Some([t |-> t,
                         timing |-> classify(classifier, t),
                         is_hit |-> is_hit(classifier, t),
                         is_miss |-> is_miss(classifier, t)])
    /\ UNCHANGED classifier
    /\ ClassifierFrame

NextClassifier == Record \/ Feed \/ Classification

SpecClassifier == InitClassifier /\ [][NextClassifier]_vars

---------------------------------------------------------------------------
(* Claims about the TimingClassifier (SpecClassifier)                      *)

\* m is a median of the values recorded in histogram h: a recorded value
\* with at least half of the values on either side of it, itself counted.
IsMedian(h, m) ==
    /\ m \in DOMAIN h
    /\ 2 * CountUpTo(h, m) >= BagCardinality(h)
    /\ 2 * (BagCardinality(h) - CountUpTo(h, m - 1)) >= BagCardinality(h)

\* The feed is complete: 100 hits and 100 misses are recorded.
Fed ==
    /\ cl_mode = "feed"
    /\ BagCardinality(classifier.hits) = 100
    /\ BagCardinality(classifier.misses) = 100

\* C13: classify(t) returns Miss(t) when the miss centroid is strictly
\* nearer to t than the hit centroid and Hit(t) otherwise (so on a tie),
\* the centroid of a cluster with samples being their median; is_hit and
\* is_miss are complements; after 100 Hit(100) and 100 Miss(400),
\* is_hit(249), is_hit(250) and is_miss(251) hold.
C13_ClassifyNearest ==
    /\ classifier.hits # EmptyBag =>
            IsMedian(classifier.hits, classifier.hit_centroid)
    /\ classifier.misses # EmptyBag =>
            IsMedian(classifier.misses, classifier.miss_centroid)
    /\ verdict # None =>
        LET v == verdict[1]
            to_miss == Abs(classifier.miss_centroid - v.t)
            to_hit == Abs(classifier.hit_centroid - v.t)
        IN  /\ v.timing = IF to_miss < to_hit THEN CacheMiss(v.t)
                                              ELSE CacheHit(v.t)
            /\ v.is_hit <=> timing_is_hit(v.timing)
            /\ v.is_miss <=> ~v.is_hit
            /\ (Fed /\ v.t \in {249, 250}) => v.is_hit
            /\ (Fed /\ v.t = 251) => v.is_miss

\* After the whole feed, the tie at 250 was asked and answered Hit.
C13_Witness ==
    /\ Fed
    /\ verdict # None
    /\ verdict[1].t = 250
    /\ verdict[1].is_hit
    /\ classifier.hit_centroid = 100
    /\ classifier.miss_centroid = 400

\* C14 (as stated): while at least one of the two clusters has no sample,
\* is_miss(t) is false for every t.
C14_NoMissBeforeBothSampled ==
    (verdict # None /\ (classifier.hits = EmptyBag \/ classifier.misses = EmptyBag))
        => ~verdict[1].is_miss

---------------------------------------------------------------------------
(* Rpp::prime, Rpp::probe and Rpp::check_evicts (rpp/mod.rs) against a     *)
(* connector (connection/mod.rs). The connector is the environment: it     *)
(* answers the i-th call it receives with replies[i], Ok or an error, and  *)
(* calls is the log of what it received. A call is the pair of the         *)
(* method's name and the address; () is the empty tuple; a ProbeResult     *)
(* with its latencies is a record of the variant and the latencies.        *)

Unit == <<>>

CacheCall(a) == <<"cache", a>>

TimeAccessCall(a) == <<"time_access", a>>

ActivatedWith(lats) == [res |-> Activated, lats |-> lats]

StaleWith(lats) == [res |-> Stale, lats |-> lats]

\* The index of the first of the replies rs that is an error, 0 if none.
FirstFailure(rs) ==
    IF \A i \in 1..Len(rs) : rs[i].ok THEN 0
    ELSE CHOOSE i \in 1..Len(rs) :
            ~rs[i].ok /\ \A j \in 1..(i - 1) : rs[j].ok

\* Calls chained by `?`, try_for_each or collect::<Result<_>>(): issued in
\* order up to the first one that fails.
Issue(plan, rs) ==
    LET k == FirstFailure(SubSeq(rs, 1, Len(plan))) IN
    [calls |-> IF k = 0 THEN plan ELSE SubSeq(plan, 1, k), failed |-> k]

\* CacheConnector::cache_all: try_for_each(|addr| self.cache(addr)).
cache_all(iter, rs) ==
    Issue([i \in 1..Len(iter) |-> CacheCall(iter[i])], rs)

\* colored_sets[set_code.0][set_code.1]
SetAt(sets, code) == sets[code[1] + 1][code[2] + 1]

prime(sets, code, rs) ==
    LET io == cache_all(SetAt(sets, code), rs) IN
    [calls |-> io.calls,
     ret |-> IF io.failed = 0 THEN Ok(Unit) ELSE rs[io.failed]]

\* Variant: a set counts as activated only if every latency is a miss.
probe_every_miss(sets, code, cl, rs) ==
    LET set == SetAt(sets, code)
        io == Issue([i \in 1..Len(set) |-> TimeAccessCall(set[i])], rs)
        lats == [i \in 1..Len(set) |-> rs[i].val]
    IN  [calls |-> io.calls,
         ret |-> IF io.failed # 0 THEN rs[io.failed]
                 ELSE IF \A i \in 1..Len(lats) : is_miss(cl, lats[i])
                      THEN Ok(ActivatedWith(lats))
                      ELSE Ok(StaleWith(lats))]

probe(sets, code, cl, rs) ==
    LET set == SetAt(sets, code)
        io == Issue([i \in 1..Len(set) |-> TimeAccessCall(set[i])], rs)
        lats == [i \in 1..Len(set) |-> rs[i].val]
    IN  [calls |-> io.calls,
         ret |-> IF io.failed # 0 THEN rs[io.failed]
                 ELSE IF \E i \in 1..Len(lats) : is_miss(cl, lats[i])
                      THEN Ok(ActivatedWith(lats))
                      ELSE Ok(StaleWith(lats))]

\* Variant: the address is timed before the set is brought into the cache.
check_evicts_times_first(set, addr, cl, rs) ==
    LET plan == <<CacheCall(addr), TimeAccessCall(addr)>>
                    \o [i \in 1..Len(set) |-> CacheCall(set[i])]
        io == Issue(plan, rs)
    IN  [calls |-> io.calls,
         ret |-> IF io.failed # 0 THEN rs[io.failed]
                 ELSE Ok(is_miss(cl, rs[Len(plan)].val))]

check_evicts(set, addr, cl, rs) ==
    LET plan == <<CacheCall(addr)>>
                    \o [i \in 1..Len(set) |-> CacheCall(set[i])]
                    \o <<TimeAccessCall(addr)>>
        io == Issue(plan, rs)
    IN  [calls |-> io.calls,
         ret |-> IF io.failed # 0 THEN rs[io.failed]
                 ELSE Ok(is_miss(cl, rs[Len(plan)].val))]

---------------------------------------------------------------------------
(* Specification SpecRpp: one call of prime or probe on a color of two     *)
(* eviction sets, or of check_evicts on the first of them, with every      *)
(* set, classifier and connector behaviour within the bounds.              *)

MaxAddr == 3

MaxSetLen == 2

\* The vectors of distinct addresses out of 1..n, no longer than maxlen.
SetInputs(n, maxlen) ==
    UNION {{v \in [1..len -> 1..n] :
                \A i, j \in 1..len : i # j => v[i] # v[j]} : len \in 0..maxlen}

\* A second set of the same color: other addresses, in the same order.
Shifted(set, n) == [i \in 1..Len(set) |-> set[i] + n]

\* A classifier as constructed, and one trained by train_classifier with a
\* hit time below the miss time.
RppClassifiers ==
    {TimingClassifier_new,
     record(record(TimingClassifier_new, CacheHit(1)), CacheMiss(MaxTime))}

\* What the connector answers to cache and to time_access.
CacheReplies == {Ok(Unit), Err("ERROR: connector")}

TimeReplies == {Ok(t) : t \in 0..MaxTime} \cup {Err("ERROR: connector")}

InitRpp ==
    /\ op = "init"
    /\ classifier \in RppClassifiers
    /\ cand \in SetInputs(MaxAddr, MaxSetLen)
    /\ colored_sets = << <<cand, Shifted(cand, MaxAddr)>> >>
    /\ set_code = <<0, 0>>
    /\ replies = <<>>
    /\ calls = <<>>
    /\ rpp_res = Unset
    /\ cl_mode = "idle"
    /\ verdict = None
    /\ pattern = <<>>
    /\ pos = 0
    /\ probe_res = <<>>
    /\ win = <<>>
    /\ rec = Unset
    /\ walk_start = 0
    /\ walk_steps = 0
    /\ walk_seen = <<>>
    /\ patterns = NoPatterns
    /\ found = Unset
    /\ ctx = TrackingContext_default
    /\ arg = 0
    /\ MeasureIdle
    /\ BuildIdle
    /\ TrackIdle
    /\ MoreIdle

RppFrame ==
    UNCHANGED <<pattern, pos, probe_res, win, rec, walk_start, walk_steps,
                walk_seen, patterns, found, ctx, measureVars, classifierVars,
                colored_sets, cand, buildVars,
                trackVars, moreVars>>

Prime ==
    /\ op = "init"
    /\ op' = "prime"
    /\ \E code \in {<<0, 0>>, <<0, 1>>} :
       \E rs \in [1..Len(SetAt(colored_sets, code)) -> CacheReplies] :
        LET out == prime(colored_sets, code, rs) IN
        /\ set_code' = code
        /\ replies' = rs
        /\ calls' = out.calls
        /\ rpp_res' = out.ret
    /\ UNCHANGED arg
    /\ RppFrame

Probe ==
    /\ op = "init"
    /\ op' = "probe"
    /\ \E code \in {<<0, 0>>, <<0, 1>>} :
       \E rs \in [1..Len(SetAt(colored_sets, code)) -> TimeReplies] :
        LET out == probe(colored_sets, code, classifier, rs) IN
        /\ set_code' = code
        /\ replies' = rs
        /\ calls' = out.calls
        /\ rpp_res' = out.ret
    /\ UNCHANGED arg
    /\ RppFrame

CheckEvicts ==
    /\ op = "init"
    /\ op' = "check_evicts"
    /\ \E addr \in 1..MaxAddr :
       \E cs \in [1..(Len(cand) + 1) -> CacheReplies] : \E t \in TimeReplies :
        LET rs == cs \o <<t>>
            out == check_evicts(cand, addr, classifier, rs)
        IN  /\ arg' = addr
            /\ replies' = rs
            /\ calls' = out.calls
            /\ rpp_res' = out.ret
    /\ UNCHANGED set_code
    /\ RppFrame

NextRpp == Prime \/ Probe \/ CheckEvicts

SpecRpp == InitRpp /\ [][NextRpp]_vars

---------------------------------------------------------------------------
(* Claims about prime, probe and check_evicts (SpecRpp)                    *)

\* The stored eviction set that set_code names.
Subject == colored_sets[set_code[1] + 1][set_code[2] + 1]

\* Every one of the first n replies is Ok.
AllOk(n) == \A i \in 1..n : replies[i].ok

\* The log holds exactly the first n calls of plan, in order.
LogIsPrefix(plan, n) ==
    /\ Len(calls) = n
    /\ \A i \in 1..n : calls[i] = plan[i]

\* The k-th call failed, the ones before it did not.
FailsAt(k) == ~replies[k].ok /\ AllOk(k - 1)

\* C15: probe(s) times every address of s exactly once, in stored order,
\* and returns Activated(lats) if at least one latency is classified as a
\* miss, Stale(lats) otherwise, lats holding the latency of each address
\* in order; prime(s) caches exactly the addresses of s in stored order; a
\* connector error ends the operation at the failing call and is returned.
C15_ProbeAndPrime ==
    /\ op = "probe" =>
        LET n == Len(Subject)
            plan == [i \in 1..n |-> <<"time_access", Subject[i]>>]
        IN  /\ AllOk(n) =>
                /\ LogIsPrefix(plan, n)
                /\ rpp_res.ok
                /\ Len(rpp_res.val.lats) = n
                /\ \A i \in 1..n : rpp_res.val.lats[i] = replies[i].val
                /\ rpp_res.val.res = Activated <=>
                        \E i \in 1..n : is_miss(classifier, replies[i].val)
                /\ rpp_res.val.res = Stale <=>
                        \A i \in 1..n : ~is_miss(classifier, replies[i].val)
            /\ \A k \in 1..n : FailsAt(k) =>
                /\ LogIsPrefix(plan, k)
                /\ rpp_res = replies[k]
    /\ op = "prime" =>
        LET n == Len(Subject)
            plan == [i \in 1..n |-> <<"cache", Subject[i]>>]
        IN  /\ AllOk(n) => (LogIsPrefix(plan, n) /\ rpp_res = Ok(Unit))
            /\ \A k \in 1..n : FailsAt(k) =>
                /\ LogIsPrefix(plan, k)
                /\ rpp_res = replies[k]

\* A probe of a set of two addresses of which only the second is timed as
\* a miss: Activated, with both latencies.
C15_Witness ==
    /\ op = "probe"
    /\ Len(Subject) = 2
    /\ AllOk(2)
    /\ ~is_miss(classifier, replies[1].val)
    /\ is_miss(classifier, replies[2].val)
    /\ rpp_res.ok
    /\ rpp_res.val.res = Activated

\* C16: check_evicts(set, addr) issues cache(addr), then cache of every
\* member of set in order, then one time_access(addr), and returns true
\* exactly when that latency is classified as a miss; when a call fails
\* the later calls are not issued and the error is returned.
C16_CheckEvictsCalls ==
    op = "check_evicts" =>
        LET n == Len(cand) + 2
            plan == [i \in 1..n |->
                        IF i = 1 THEN <<"cache", arg>>
                        ELSE IF i = n THEN <<"time_access", arg>>
                        ELSE <<"cache", cand[i - 1]>>]
        IN  /\ AllOk(n) =>
                /\ LogIsPrefix(plan, n)
                /\ rpp_res.ok
                /\ rpp_res.val <=> is_miss(classifier, replies[n].val)
            /\ \A k \in 1..n : FailsAt(k) =>
                /\ LogIsPrefix(plan, k)
                /\ rpp_res = replies[k]

\* check_evicts on a set of two addresses answered true: all four calls
\* were issued.
C16_Witness ==
    /\ op = "check_evicts"
    /\ Len(cand) = 2
    /\ Len(calls) = 4
    /\ rpp_res.ok
    /\ rpp_res.val

---------------------------------------------------------------------------
(* The construction of the eviction sets (rpp/mod.rs, rpp/params.rs).      *)
(* check_evicts is answered by the environment: a cache in which two       *)
(* addresses are congruent when they share the page offset and the color   *)
(* of the page, and which evicts an address when the set holds n_lines     *)
(* other addresses congruent to it. Within one call of build_initial_set   *)
(* or one turn of the loop of add_sets the environment may spoil the       *)
(* answer to one call of check_evicts, by a connector error or by a wrong  *)
(* classification. The operations thread k, the number of check_evicts     *)
(* calls made so far.                                                      *)

PAGE_SIZE == 4096

CTL_BIT == 6

NUM_VARIANTS == 64

\* Variant: one retry less.
RETRY_CNT_less == 10 - 1

RETRY_CNT == 10

RECURSIVE Xor(_, _)
\* a ^ b on unsigned integers.
Xor(a, b) ==
    IF a = 0 THEN b
    ELSE IF b = 0 THEN a
    ELSE ((a + b) % 2) + 2 * Xor(a \div 2, b \div 2)

RECURSIVE Shl(_, _)
\* a << n.
Shl(a, n) == IF n = 0 THEN a ELSE Shl(2 * a, n - 1)

Max(a, b) == IF a >= b THEN a ELSE b

\* The elements of a vector.
Elems(v) == {v[i] : i \in 1..Len(v)}

CacheParams_new(bytes_per_line, lines_per_set, reachable_lines, cache_size, addr_num) ==
    [bytes_per_line |-> bytes_per_line, lines_per_set |-> lines_per_set,
     reachable_lines |-> reachable_lines, cache_size |-> cache_size,
     addr_num |-> addr_num]

\* Variant: the colors are counted rounding up.
RppParams_from_ceil(cp) ==
    LET n_sets == cp.cache_size \div (cp.lines_per_set * cp.bytes_per_line)
        n_sets_per_page == PAGE_SIZE \div cp.bytes_per_line
    IN  [n_lines |-> cp.reachable_lines,
         n_sets |-> n_sets,
         v_buf |-> cp.addr_num * PAGE_SIZE,
         n_sets_per_page |-> n_sets_per_page,
         n_colors |-> (n_sets + n_sets_per_page - 1) \div n_sets_per_page]

\* impl From<CacheParams> for RppParams
RppParams_from(cp) ==
    LET n_sets == cp.cache_size \div (cp.lines_per_set * cp.bytes_per_line)
        n_sets_per_page == PAGE_SIZE \div cp.bytes_per_line
    IN  [n_lines |-> cp.reachable_lines,
         n_sets |-> n_sets,
         v_buf |-> cp.addr_num * PAGE_SIZE,
         n_sets_per_page |-> n_sets_per_page,
         n_colors |-> n_sets \div n_sets_per_page]

\* The address table of with_params: pool i holds the page-aligned
\* addresses of the buffer, each xor-ed with i << 6, for i in 0..64.
InitialPools(p) ==
    [i \in 1..64 |->
        [x \in 1..(p.v_buf \div PAGE_SIZE) |->
            Xor((x - 1) * PAGE_SIZE, Shl(i - 1, 6))]]

\* The colors of the pages of the machine under attack.
PhysColors == 2

Congruent(a, b) ==
    /\ a % PAGE_SIZE = b % PAGE_SIZE
    /\ (a \div PAGE_SIZE) % PhysColors = (b \div PAGE_SIZE) % PhysColors

\* The k-th answer to check_evicts(set, x) under environment e.
Evicts(e, k, set, x) ==
    LET evicted ==
            Cardinality({i \in 1..Len(set) : set[i] # x /\ Congruent(set[i], x)})
                >= e.n_lines
    IN  IF k # e.fault THEN Ok(evicted)
        ELSE IF e.kind = "err" THEN Err("ERROR: connector")
        ELSE Ok(~evicted)

\* F applied to the value of v: a let binding, v being evaluated once.
Bind(v, F(_)) == CHOOSE r \in {F(x) : x \in {v}} : TRUE

RECURSIVE ForwardLoop(_, _, _, _, _)
\* while n <= total_addrs { ... n += 1 }
ForwardLoop(pool, addr, n, e, k) ==
    IF n > Len(pool)
    THEN [ret |-> Err("ERROR: cannot build set for the chosen address."),
          k |-> k]
    ELSE Bind(SubSeq(pool, 1, n - 1), LAMBDA sub_set :
         Bind(Evicts(e, k + 1, sub_set, addr), LAMBDA evicts :
            IF ~evicts.ok THEN [ret |-> evicts, k |-> k + 1]
            ELSE IF evicts.val THEN [ret |-> Ok(sub_set), k |-> k + 1]
            ELSE Bind(<<n + 1, k + 1>>, LAMBDA nk :
                    ForwardLoop(pool, addr, nk[1], e, nk[2]))))

\* Variant: the search starts at n_lines + 1 whatever the size of the pool.
forward_selection_from_lines(pool, addr, e, k) ==
    IF Len(pool) < e.n_lines + 1
    THEN [ret |-> Err("ERROR: No addrs left"), k |-> k]
    ELSE ForwardLoop(pool, addr, e.n_lines + 1, e, k)

forward_selection(pool, addr, e, k) ==
    IF Len(pool) < e.n_lines + 1
    THEN [ret |-> Err("ERROR: No addrs left"), k |-> k]
    ELSE Bind(Max(Len(pool) \div 10, e.n_lines + 1), LAMBDA n :
            ForwardLoop(pool, addr, n, e, k))

RECURSIVE ChunkScan(_, _, _, _, _, _)
\* for _ in 0..n_lines: the first chunk without which s still evicts x.
\* j counts the chunks tried, idx = j * chunk_len.
ChunkScan(s, x, chunk_len, j, e, k) ==
    Bind(j * chunk_len, LAMBDA idx :
        IF j = e.n_lines THEN [ret |-> Ok(FALSE), idx |-> idx, k |-> k]
        ELSE Bind(SubSeq(s, 1, idx) \o SubSeq(s, idx + chunk_len + 1, Len(s)),
             LAMBDA it :
             Bind(Evicts(e, k + 1, it, x), LAMBDA evicts :
                IF ~evicts.ok THEN [ret |-> evicts, idx |-> idx, k |-> k + 1]
                ELSE IF evicts.val
                THEN [ret |-> Ok(TRUE), idx |-> idx, k |-> k + 1]
                ELSE Bind(<<j + 1, k + 1>>, LAMBDA jk :
                        ChunkScan(s, x, chunk_len, jk[1], e, jk[2])))))

RECURSIVE BackwardLoop(_, _, _, _)
\* while s.len() > n_lines { ... }: a chunk found is drained, else the tail.
BackwardLoop(s, x, e, k) ==
    IF Len(s) <= e.n_lines THEN [ret |-> Ok(s), k |-> k]
    ELSE Bind(Len(s) \div (e.n_lines + 1), LAMBDA chunk_len :
         Bind(ChunkScan(s, x, chunk_len, 0, e, k), LAMBDA scan :
            IF ~scan.ret.ok THEN [ret |-> scan.ret, k |-> scan.k]
            ELSE Bind(IF scan.ret.val
                      THEN SubSeq(s, 1, scan.idx)
                              \o SubSeq(s, scan.idx + chunk_len + 1, Len(s))
                      ELSE SubSeq(s, 1, scan.idx),
                      LAMBDA drained : BackwardLoop(drained, x, e, scan.k))))

backward_selection(s, x, e, k) ==
    IF Len(s) < e.n_lines
    THEN [ret |-> Err("ERROR: the initial set for backwards selection is too narrow."),
          k |-> k]
    ELSE BackwardLoop(s, x, e, k)

\* Variant: the addresses of the set stay in the pool.
remove_used_addrs_kept(pool, s) == pool

\* self.addrs[idx].retain(|x| !s.contains(x))
remove_used_addrs(pool, s) ==
    SelectSeq(pool, LAMBDA x : x \notin Elems(s))

\* forward_selection, backward_selection, remove_used_addrs on pool idx.
build_set_for_idx_addr(pools, idx, addr, e, k) ==
    Bind(forward_selection(pools[idx + 1], addr, e, k), LAMBDA fwd :
        IF ~fwd.ret.ok THEN [ret |-> fwd.ret, addrs |-> pools, k |-> fwd.k]
        ELSE Bind(backward_selection(fwd.ret.val, addr, e, fwd.k), LAMBDA bwd :
            IF ~bwd.ret.ok
            THEN [ret |-> bwd.ret, addrs |-> pools, k |-> bwd.k]
            ELSE [ret |-> bwd.ret,
                  addrs |-> [pools EXCEPT
                               ![idx + 1] = remove_used_addrs(@, bwd.ret.val)],
                  k |-> bwd.k]))

RECURSIVE CleanupLoop(_, _, _, _, _, _, _)
\* for x in addrs (the copy): remove x from the pool, at index i, when s
\* evicts it. j is the index of x in the copy.
CleanupLoop(copy, j, pool, i, s, e, k) ==
    IF j > Len(copy) THEN [ret |-> Ok(Unit), pool |-> pool, k |-> k]
    ELSE Bind(Evicts(e, k + 1, s, copy[j]), LAMBDA evicts :
            IF ~evicts.ok THEN [ret |-> evicts, pool |-> pool, k |-> k + 1]
            ELSE Bind([pool |-> IF evicts.val
                                THEN SubSeq(pool, 1, i)
                                        \o SubSeq(pool, i + 2, Len(pool))
                                ELSE pool,
                       i |-> IF evicts.val THEN i ELSE i + 1,
                       j |-> j + 1,
                       k |-> k + 1],
                      LAMBDA n : CleanupLoop(copy, n.j, n.pool, n.i, s, e, n.k)))

\* Variant: no address leaves the pool.
cleanup_congruent_none(pool, s, e, k) ==
    [ret |-> Ok(Unit), pool |-> pool, k |-> k]

cleanup_congruent(pool, s, e, k) == CleanupLoop(pool, 1, pool, 0, s, e, k)

\* build_initial_set with addr the address chosen from pool 0.
build_initial_set(pools, addr, e, k) ==
    Bind(build_set_for_idx_addr(pools, 0, addr, e, k), LAMBDA built :
        IF ~built.ret.ok THEN built
        ELSE Bind(cleanup_congruent(built.addrs[1], built.ret.val, e, built.k),
             LAMBDA clean :
                [ret |-> IF clean.ret.ok THEN built.ret ELSE clean.ret,
                 addrs |-> [built.addrs EXCEPT ![1] = clean.pool],
                 k |-> clean.k]))

RECURSIVE TrySeeds(_, _, _, _, _, _)
\* for addr in set.map(|x| x ^ (i << CTL_BIT)): the first address for
\* which a set is built. j is the index of x in set.
TrySeeds(set, j, i, pools, e, k) ==
    IF j > Len(set)
    THEN [ret |-> Err("Error: could not derive sets"), addrs |-> pools, k |-> k]
    ELSE Bind(Xor(set[j], Shl(i, CTL_BIT)), LAMBDA addr :
         Bind(build_set_for_idx_addr(pools, i, addr, e, k), LAMBDA built :
            IF built.ret.ok THEN built
            ELSE Bind(j + 1, LAMBDA next :
                    TrySeeds(set, next, i, built.addrs, e, built.k))))

---------------------------------------------------------------------------
(* Specification SpecBuild: Rpp::with_params and build_sets, one call of   *)
(* build_initial_set or one turn of the loop of add_sets (without the      *)
(* feature xor_slice_hash) per step.                                       *)

MaxPages == 6

MaxLines == 2

MaxFaultAt == 3

MaxFaults == 1

\* The cache parameters: lines of 64 bytes, as in every shipped profile,
\* and of 128 bytes (CacheParams::new takes any), with a cache of one to
\* MaxColors colors.
CacheParamsInputs ==
    {CacheParams_new(bytes_per_line, lines, lines, colors * PAGE_SIZE * lines,
                     MaxPages) :
        bytes_per_line \in {64, 128}, lines \in 1..MaxLines,
        colors \in 1..MaxColors}

\* The environments of one step: sound, or spoiling the answer to one of
\* the first MaxFaultAt calls of check_evicts while the budget lasts.
Envs(n_lines, budget) ==
    {[n_lines |-> n_lines, fault |-> 0, kind |-> "err"]}
    \cup {[n_lines |-> n_lines, fault |-> f, kind |-> kind] :
            f \in IF budget > 0 THEN 1..MaxFaultAt ELSE {},
            kind \in {"err", "flip"}}

\* ErrorKind::UnexpectedEof is the kind of "No addrs left" only.
IsUnexpectedEof(e) == e.err = "ERROR: No addrs left"

InitBuild ==
    /\ op = "build"
    /\ cparams \in CacheParamsInputs
    /\ params = RppParams_from(cparams)
    /\ quite \in BOOLEAN
    /\ addrs = InitialPools(params)
    /\ colored_sets = <<>>
    /\ build_pc = "loop"
    /\ b_err_cnt = 0
    /\ cur_set = <<>>
    /\ variant = 0
    /\ new_sets = <<>>
    /\ faults = MaxFaults
    /\ set_code = <<0, 0>>
    /\ cand = <<>>
    /\ replies = <<>>
    /\ calls = <<>>
    /\ rpp_res = Unset
    /\ pattern = <<>>
    /\ pos = 0
    /\ probe_res = <<>>
    /\ win = <<>>
    /\ rec = Unset
    /\ walk_start = 0
    /\ walk_steps = 0
    /\ walk_seen = <<>>
    /\ patterns = NoPatterns
    /\ found = Unset
    /\ ctx = TrackingContext_default
    /\ arg = 0
    /\ MeasureIdle
    /\ ClassifierIdle
    /\ TrackIdle
    /\ MoreIdle

BuildFrame ==
    UNCHANGED <<op, pattern, pos, probe_res, win, rec, walk_start, walk_steps,
                walk_seen, patterns, found, ctx, arg, measureVars,
                classifierVars, set_code, cand, replies, calls, rpp_res,
                cparams, params, quite, trackVars,
                moreVars>>

\* The Err arm of the match in build_sets.
InitialSetFailed(e) ==
    /\ build_pc' = IF ~quite /\ IsUnexpectedEof(e) THEN "panic" ELSE "loop"
    /\ UNCHANGED <<colored_sets, b_err_cnt, cur_set, variant, new_sets>>

\* while colored_sets.len() < n_colors { match build_initial_set() ... }
BuildInitialSet ==
    /\ build_pc = "loop"
    /\ Len(colored_sets) < params.n_colors
    /\ IF addrs[1] = <<>>
         THEN /\ InitialSetFailed(Err("ERROR: No addrs left"))
              /\ UNCHANGED <<addrs, faults>>
         ELSE \E addr \in Elems(addrs[1]) :
              \E e \in Envs(params.n_lines, faults) :
              \E built \in {build_initial_set(addrs, addr, e, 0)} :
                /\ addrs' = built.addrs
                /\ faults' = IF e.fault = 0 THEN faults ELSE faults - 1
                /\ IF built.ret.ok
                     THEN /\ cur_set' = built.ret.val
                          /\ b_err_cnt' = 0
                          /\ build_pc' = "add_sets"
                          /\ variant' = 1
                          /\ new_sets' = <<built.ret.val>>
                          /\ UNCHANGED colored_sets
                     ELSE InitialSetFailed(built.ret)
    /\ BuildFrame

\* One turn of for i in 1..NUM_VARIANTS in add_sets: the set of variant i
\* is derived and pushed to sets, and after the last turn sets is pushed to
\* colored_sets; or no set can be derived, add_sets returns the error,
\* build_sets counts it and calls add_sets again with the same set, or
\* panics. The environment spoils answers in the first MaxFaultAt turns
\* only.
DeriveSet ==
    /\ build_pc = "add_sets"
    /\ \E e \in Envs(params.n_lines, IF variant <= MaxFaultAt THEN faults ELSE 0) :
       \E derived \in {TrySeeds(cur_set, 1, variant, addrs, e, 0)} :
        /\ addrs' = derived.addrs
        /\ faults' = IF e.fault = 0 THEN faults ELSE faults - 1
        /\ IF derived.ret.ok
             THEN /\ UNCHANGED b_err_cnt
                  /\ IF variant + 1 < NUM_VARIANTS
                       THEN /\ variant' = variant + 1
                            /\ new_sets' = Append(new_sets, derived.ret.val)
                            /\ UNCHANGED <<build_pc, colored_sets>>
                       ELSE /\ colored_sets' =
                                Append(colored_sets, Append(new_sets, derived.ret.val))
                            /\ build_pc' = "loop"
                            /\ variant' = 0
                            /\ new_sets' = <<>>
             ELSE /\ b_err_cnt' = b_err_cnt + 1
                  /\ build_pc' = IF b_err_cnt + 1 > RETRY_CNT
                                  THEN "panic" ELSE "add_sets"
                  /\ variant' = 1
                  /\ new_sets' = <<cur_set>>
                  /\ UNCHANGED colored_sets
    /\ UNCHANGED cur_set
    /\ BuildFrame

\* The while loop ends: build_sets returns.
BuildDone ==
    /\ build_pc = "loop"
    /\ Len(colored_sets) >= params.n_colors
    /\ build_pc' = "done"
    /\ UNCHANGED <<colored_sets, addrs, b_err_cnt, cur_set, variant, new_sets,
                   faults>>
    /\ BuildFrame

NextBuild == BuildInitialSet \/ DeriveSet \/ BuildDone

SpecBuild == InitBuild /\ [][NextBuild]_vars

---------------------------------------------------------------------------
(* Claims about the construction of the eviction sets.                     *)

\* The places <<c, i, j>> of the addresses stored in colored_sets.
StoredPlaces ==
    UNION {UNION {{<<c, i, j>> : j \in DOMAIN colored_sets[c][i]} :
                    i \in DOMAIN colored_sets[c]} :
            c \in DOMAIN colored_sets}

StoredAt(pl) == colored_sets[pl[1]][pl[2]][pl[3]]

\* The addresses left in the pools.
PoolAddrs == UNION {Elems(addrs[p]) : p \in 1..Len(addrs)}

\* C17: at every point of the construction every color of colored_sets
\* holds exactly n_sets_per_page eviction sets, each of exactly n_lines
\* (reachable_lines) addresses, and when build_sets has returned
\* colored_sets holds exactly n_colors colors.
C17_SetCounts ==
    /\ \A c \in 1..Len(colored_sets) :
        /\ Len(colored_sets[c]) = params.n_sets_per_page
        /\ \A i \in 1..Len(colored_sets[c]) :
                Len(colored_sets[c][i]) = params.n_lines
    /\ build_pc = "done" => Len(colored_sets) = params.n_colors

\* C18: after any sequence of set-building steps, failed and retried
\* add_sets included, every address is stored at one place of colored_sets
\* at most, and no stored address is left in an address pool.
C18_StoredSetsDisjoint ==
    /\ Cardinality({StoredAt(pl) : pl \in StoredPlaces})
            = Cardinality(StoredPlaces)
    /\ {StoredAt(pl) : pl \in StoredPlaces} \cap PoolAddrs = {}

\* A color is stored, the second one after add_sets had failed on its set
\* and was called again.
C18_Witness ==
    /\ Len(colored_sets) >= 2
    /\ b_err_cnt > 0

\* C19: after construction, for every color c and sets i # j of it, a -> a
\* xor ((i xor j) << 6) maps colored_sets[c][i] onto colored_sets[c][j],
\* and every address of colored_sets[c][i] has i in its bits 6 to 11.
C19_XorImages ==
    build_pc = "done" =>
        \A c \in 1..Len(colored_sets) :
            /\ \A i, j \in 0..(Len(colored_sets[c]) - 1) :
                    i # j =>
                        {Xor(a, Shl(Xor(i, j), CTL_BIT)) :
                            a \in Elems(colored_sets[c][i + 1])}
                        = Elems(colored_sets[c][j + 1])
            /\ \A i \in 0..(Len(colored_sets[c]) - 1) :
                    \A a \in Elems(colored_sets[c][i + 1]) :
                        (a \div Shl(1, CTL_BIT)) % NUM_VARIANTS = i

---------------------------------------------------------------------------
(* Specification SpecTrack: OnlineTracker::track, one call of locate_rx or *)
(* of measure per step. What a call returns is the environment's choice;   *)
(* measure may also panic (on probe_res[ctx.pos()]).                       *)

MAX_FAIL_CNT == 100

\* Variant: track gives up one failure earlier.
give_up_early(err_cnt) == err_cnt >= MAX_FAIL_CNT

\* if err_cnt > MAX_FAIL_CNT { return Err(...) }
give_up(err_cnt) == err_cnt > MAX_FAIL_CNT

\* What locate_rx returns.
LocateResults ==
    {Ok(Unit), Err("ERROR: Cannot decide on pattern"), Err("ERROR: connector")}

\* What measure returns.
MeasureResults ==
    {Ok(Unit), Err("ERROR: Cannot recover position"),
     Err("ERROR: Cannot determine the initial position in RX")}

\* Error::new(ErrorKind::NotConnected, format!(..., e))
NotConnected(e) ==
    Err("ERROR: Could not loacte RX buffer in memory: " \o e)

InitTrack ==
    /\ op = "track"
    /\ t_pc = "locate"
    /\ t_err_cnt = 0
    /\ t_err = ""
    /\ locate_tries = 0
    /\ locate_fails = 0
    /\ measure_tries = 0
    /\ measure_fails = 0
    /\ track_res = Unset
    /\ pattern = <<>>
    /\ pos = 0
    /\ probe_res = <<>>
    /\ win = <<>>
    /\ rec = Unset
    /\ walk_start = 0
    /\ walk_steps = 0
    /\ walk_seen = <<>>
    /\ patterns = NoPatterns
    /\ found = Unset
    /\ ctx = TrackingContext_default
    /\ arg = 0
    /\ MeasureIdle
    /\ ClassifierIdle
    /\ RppIdle
    /\ BuildIdle
    /\ MoreIdle

TrackFrame ==
    UNCHANGED <<op, pattern, pos, probe_res, win, rec, walk_start, walk_steps,
                walk_seen, patterns, found, ctx, arg, measureVars,
                classifierVars, rppVars, buildVars, moreVars>>

\* while let Err(e) = self.locate_rx() { err_cnt += 1; ... }, and
\* err_cnt = 0 once it is left.
LocateRx ==
    /\ t_pc = "locate"
    /\ \E r \in LocateResults :
        /\ locate_tries' = locate_tries + 1
        /\ IF r.ok
             THEN /\ t_pc' = "measure"
                  /\ t_err_cnt' = 0
                  /\ t_err' = ""
                  /\ UNCHANGED <<locate_fails, track_res>>
             ELSE /\ locate_fails' = locate_fails + 1
                  /\ t_err_cnt' = t_err_cnt + 1
                  /\ t_err' = r.err
                  /\ IF give_up(t_err_cnt + 1)
                       THEN /\ t_pc' = "returned"
                            /\ track_res' = NotConnected(r.err)
                       ELSE UNCHANGED <<t_pc, track_res>>
    /\ UNCHANGED <<measure_tries, measure_fails>>
    /\ TrackFrame

\* while let Err(e) = self.measure(cnt) { err_cnt += 1; ... }; Ok(())
Measure ==
    /\ t_pc = "measure"
    /\ \E r \in MeasureResults :
        /\ measure_tries' = measure_tries + 1
        /\ IF r.ok
             THEN /\ t_pc' = "returned"
                  /\ track_res' = Ok(Unit)
                  /\ UNCHANGED <<measure_fails, t_err_cnt, t_err>>
             ELSE /\ measure_fails' = measure_fails + 1
                  /\ t_err_cnt' = t_err_cnt + 1
                  /\ t_err' = r.err
                  /\ IF give_up(t_err_cnt + 1)
                       THEN /\ t_pc' = "returned"
                            /\ track_res' = r
                       ELSE UNCHANGED <<t_pc, track_res>>
    /\ UNCHANGED <<locate_tries, locate_fails>>
    /\ TrackFrame

\* A call of measure panics: track does not return.
MeasurePanics ==
    /\ t_pc = "measure"
    /\ t_pc' = "panic"
    /\ measure_tries' = measure_tries + 1
    /\ UNCHANGED <<t_err_cnt, t_err, locate_tries, locate_fails, measure_fails,
                   track_res>>
    /\ TrackFrame

NextTrack == LocateRx \/ Measure \/ MeasurePanics

SpecTrack == InitTrack /\ [][NextTrack]_vars

(***************************************************************************)
(* Specification SpecRetry: the second loop of track, while let Err(e) =   *)
(* self.measure(cnt), with the calls of measure stepped as above on the    *)
(* recorder of the tracker. The failures are followed up to MaxFailed, for *)
(* calls of RetryRounds rounds.                                            *)
(***************************************************************************)

MaxFailed == 1

RetryRounds == 2

InitRetry ==
    /\ op = "track"
    /\ m_cnt \in {0, RetryRounds}
    /\ t_pc = "measure"
    /\ t_err_cnt = 0
    /\ t_err = ""
    /\ locate_tries = 1
    /\ locate_fails = 0
    /\ measure_tries = 0
    /\ measure_fails = 0
    /\ track_res = Unset
    /\ MeasureRest

RetryFrame ==
    UNCHANGED <<op, pattern, pos, rec, walk_start, walk_steps, walk_seen,
                patterns, found, arg, m_cnt, saved, last_rec, locate_tries,
                locate_fails, classifierVars, rppVars, buildVars, initPosVars,
                locateVars, trainVars, refreshVars, selectVars, initialVars,
                backVars>>

\* measure returned Err(e): err_cnt += 1, return Err(e) when err_cnt >
\* MAX_FAIL_CNT, and self.measure(cnt) again otherwise. The locals of the
\* call that failed are gone; the recorder is a field of the tracker.
MeasureFailed ==
    /\ t_pc = "measure"
    /\ pc = "err"
    /\ t_err_cnt < MaxFailed
    /\ t_err_cnt' = t_err_cnt + 1
    /\ t_err' = "ERROR: measure"
    /\ measure_tries' = measure_tries + 1
    /\ measure_fails' = measure_fails + 1
    /\ IF give_up(t_err_cnt + 1)
         THEN /\ t_pc' = "returned"
              /\ track_res' = Err("ERROR: measure")
              /\ UNCHANGED <<pc, round, sent, m_log, probe_res, win, m_base>>
         ELSE /\ pc' = "idle"
              /\ round' = 0
              /\ sent' = FALSE
              /\ m_log' = <<>>
              /\ probe_res' = <<>>
              /\ win' = <<>>
              /\ m_base' = Len(saved)
              /\ UNCHANGED <<t_pc, track_res>>
    /\ UNCHANGED ctx
    /\ RetryFrame

\* measure returned Ok(()): the loop is left and track returns Ok(()).
MeasureSucceeded ==
    /\ t_pc = "measure"
    /\ pc = "done"
    /\ t_pc' = "returned"
    /\ track_res' = Ok(Unit)
    /\ measure_tries' = measure_tries + 1
    /\ UNCHANGED <<pc, round, sent, m_log, probe_res, win, m_base, ctx,
                   t_err_cnt, t_err, measure_fails>>
    /\ RetryFrame

NextRetry == NextMeasure \/ MeasureFailed \/ MeasureSucceeded

SpecRetry == InitRetry /\ [][NextRetry]_vars

\* The recorder holds out, and after it what came later.
KeptInFront(out, later) ==
    /\ Len(out) <= Len(later)
    /\ SubSeq(later, 1, Len(out)) = out

AttemptSteps ==
    /\ KeptInFront(saved, saved')
    /\ (pc = "err" /\ pc' # "err") =>
            /\ pc' = "idle"
            /\ round' = 0
            /\ saved' = saved
            /\ m_base' = Len(saved)
    /\ pc # "err" => m_base' = m_base
    /\ (pc = "idle" /\ pc' \notin {"idle", "err"}) =>
            ctx' = TrackingContext_new(1)
    /\ pc' = "idle" => pc \in {"idle", "err"}
    /\ t_pc' # t_pc => saved' = saved

AttemptRecords ==
    /\ Len(saved) = m_base + round
    /\ round <= m_cnt
    /\ (t_pc = "returned" /\ track_res.ok) =>
            /\ round = m_cnt
            /\ measure_fails = measure_tries - 1
    /\ measure_fails = 0 => m_base = 0

\* C40: every call of measure that track makes after a failed one starts
\* with get_init_pos and the context TrackingContext::new(init_pos); no
\* step takes a record from the recorder or puts one anywhere but at its
\* end, so that the records of the failed calls stay in front; the call in
\* hand has added one record per finished round, and when track returns
\* Ok(()) these are cnt records, the last cnt of the recorder.
C40_RetryKeepsRecords == [][AttemptSteps]_vars /\ []AttemptRecords

\* track has returned Ok(()) after MaxFailed failed calls of measure, the
\* last of which failed in its last round and left the records of the
\* rounds before.
C40_Witness ==
    /\ t_pc = "returned"
    /\ track_res.ok
    /\ m_cnt = RetryRounds
    /\ measure_fails = MaxFailed
    /\ m_base >= RetryRounds - 1
    /\ Len(saved) = m_base + m_cnt

\* A phase of track failed on every one of its MAX_FAIL_CNT + 1 attempts.
PhaseExhausted(tries, fails) ==
    /\ tries = MAX_FAIL_CNT + 1
    /\ fails = tries

\* C20: track calls locate_rx at most MAX_FAIL_CNT + 1 times and, only
\* after a call of locate_rx succeeded, measure at most MAX_FAIL_CNT + 1
\* times; it returns an error exactly when one of the two phases failed on
\* every one of its attempts, and it returns Ok at the first call of
\* measure that succeeds, which is the last call it makes.
C20_TrackAttempts ==
    /\ locate_tries <= MAX_FAIL_CNT + 1
    /\ measure_tries <= MAX_FAIL_CNT + 1
    /\ measure_tries > 0 => locate_fails = locate_tries - 1
    /\ locate_fails < locate_tries => locate_fails = locate_tries - 1
    /\ t_pc = "returned" =>
            (~track_res.ok <=>
                \/ PhaseExhausted(locate_tries, locate_fails)
                \/ PhaseExhausted(measure_tries, measure_fails))
    /\ (t_pc # "panic" /\ measure_fails < measure_tries) =>
            /\ t_pc = "returned"
            /\ track_res = Ok(Unit)
            /\ measure_fails = measure_tries - 1
    /\ (\/ PhaseExhausted(locate_tries, locate_fails)
        \/ PhaseExhausted(measure_tries, measure_fails)) =>
            /\ t_pc = "returned"
            /\ ~track_res.ok

\* track has returned the error of measure, which failed MAX_FAIL_CNT + 1
\* times after locate_rx had failed and then succeeded.
C20_Witness ==
    /\ t_pc = "returned"
    /\ ~track_res.ok
    /\ locate_fails > 0
    /\ locate_fails < locate_tries
    /\ PhaseExhausted(measure_tries, measure_fails)

\* The score of is_unique for candidate set against other_set, with a
\* sound check_evicts: -1 for every one of the REPEATING witness addresses
\* that the candidate evicts and +1 for the others. The witnesses are
\* drawn with repetition, so the least score that can come out is the one
\* of a witness the candidate evicts, drawn REPEATING times.
REPEATING == 5

EvictsSound(set, x) ==
    Cardinality({i \in 1..Len(set) : set[i] # x /\ Congruent(set[i], x)})
        >= params.n_lines

LeastScore(set, other_set) ==
    IF \E t \in Elems(other_set) : EvictsSound(set, t)
    THEN -REPEATING ELSE REPEATING

\* C29: every set stored in colored_sets passes the uniqueness check
\* against the sets of the same index of the colors stored before it: no
\* stored set evicts more than half of the witness addresses of such a
\* set (a score of 0 or less).
C29_StoredSetsUnique ==
    \A c2 \in 1..Len(colored_sets) : \A c1 \in 1..(c2 - 1) :
        \A i \in 1..Len(colored_sets[c2]) :
            i <= Len(colored_sets[c1]) =>
                LeastScore(colored_sets[c2][i], colored_sets[c1][i]) > 0

\* build_sets is scheduled until it returns or panics.
SpecBuildFair == SpecBuild /\ WF_vars(NextBuild)

\* C35: build_sets terminates, by completing n_colors colors or by a fatal
\* abort, for every behaviour of the oracle and both values of the quiet
\* flag.
C35_BuildTerminates == <>(build_pc \in {"done", "panic"})

\* A step in which add_sets returned an error.
AddSetsFails == build_pc = "add_sets" /\ b_err_cnt' = b_err_cnt + 1

\* C34 (steps): a failing add_sets appends nothing to colored_sets and is
\* called again with the same initial set, until the eleventh failure in
\* a row (the first call and 10 retries), which aborts the construction;
\* nothing else aborts it from add_sets, and colored_sets grows only by a
\* whole color that starts with the initial set.
RetrySteps ==
    /\ AddSetsFails =>
            /\ colored_sets' = colored_sets
            /\ cur_set' = cur_set
            /\ IF b_err_cnt' > 10
                 THEN build_pc' = "panic"
                 ELSE build_pc' = "add_sets" /\ new_sets' = <<cur_set>>
    /\ (build_pc = "add_sets" /\ build_pc' = "panic") => AddSetsFails
    /\ colored_sets' # colored_sets =>
            /\ Len(colored_sets') = Len(colored_sets) + 1
            /\ SubSeq(colored_sets', 1, Len(colored_sets)) = colored_sets
            /\ colored_sets'[Len(colored_sets')][1] = cur_set

\* C34 (state): no color of colored_sets is partial, and the failures in
\* a row are bounded.
NoPartialColor ==
    /\ \A c \in 1..Len(colored_sets) : Len(colored_sets[c]) = NUM_VARIANTS
    /\ b_err_cnt <= 11
    /\ b_err_cnt = 11 => build_pc = "panic"

\* C34: when the 63 sibling sets of an initial set cannot all be derived,
\* add_sets fails without appending anything to colored_sets and is
\* retried with the same initial set; after RETRY_CNT (10) failed retries
\* in a row the construction is aborted, and no partial color is ever in
\* colored_sets.
C34_AddSetsRetries == [][RetrySteps]_vars /\ []NoPartialColor

\* The construction was aborted by the tenth failed retry.
C34_Witness ==
    /\ build_pc = "panic"
    /\ b_err_cnt = 11
    /\ cur_set # <<>>

---------------------------------------------------------------------------
(* Specification SpecParams: the conversion of CacheParams into RppParams, *)
(* applied to the shipped profiles and to the parameters within the        *)
(* bounds, all with a positive line size of at most a page.                *)

XEON_E5 == CacheParams_new(64, 20, 20, 20971520, 5000)

XEON_E5_DDIO == CacheParams_new(64, 20, 2, 20971520, 5000)

CORE_I7 == CacheParams_new(64, 12, 12, 6291456, 5000)

CORE_I7_DDIO == CacheParams_new(64, 12, 2, 6291456, 5000)

XEON_PLATINUM == CacheParams_new(64, 11, 11, 34603008, 5000)

XEON_PLATINUM_DDIO == CacheParams_new(64, 11, 2, 34603008, 5000)

Profiles ==
    {XEON_E5, XEON_E5_DDIO, CORE_I7, CORE_I7_DDIO, XEON_PLATINUM,
     XEON_PLATINUM_DDIO}

\* The cache sizes tried, in steps of MaxLineSize bytes.
MaxCacheUnits == 8

\* The line sizes tried are the powers of two from 32 to MaxLineSize.
MaxLineSize == 128

RECURSIVE LineSizes(_)
LineSizes(b) == IF b > MaxLineSize THEN {} ELSE {b} \cup LineSizes(2 * b)

ParamsInputs ==
    Profiles \cup
    {CacheParams_new(bytes_per_line, lines, reachable, units * MaxLineSize * 16,
                     pages) :
        bytes_per_line \in LineSizes(32), lines \in 1..MaxLines,
        reachable \in 1..MaxLines, units \in 1..MaxCacheUnits,
        pages \in {1, MaxPages}}

InitParams ==
    /\ op = "init"
    /\ cparams \in ParamsInputs
    /\ params = <<>>
    /\ quite = FALSE
    /\ addrs = <<>>
    /\ build_pc = "idle"
    /\ b_err_cnt = 0
    /\ cur_set = <<>>
    /\ variant = 0
    /\ new_sets = <<>>
    /\ faults = 0
    /\ pattern = <<>>
    /\ pos = 0
    /\ probe_res = <<>>
    /\ win = <<>>
    /\ rec = Unset
    /\ walk_start = 0
    /\ walk_steps = 0
    /\ walk_seen = <<>>
    /\ patterns = NoPatterns
    /\ found = Unset
    /\ ctx = TrackingContext_default
    /\ arg = 0
    /\ MeasureIdle
    /\ ClassifierIdle
    /\ RppIdle
    /\ TrackIdle
    /\ MoreIdle

\* let params: RppParams = cparams.into()
Into ==
    /\ op = "init"
    /\ op' = "into"
    /\ params' = RppParams_from(cparams)
    /\ UNCHANGED <<pattern, pos, probe_res, win, rec, walk_start, walk_steps,
                   walk_seen, patterns, found, ctx, arg, measureVars,
                   classifierVars, rppVars, cparams, quite, addrs, build_pc,
                   b_err_cnt, cur_set, variant, new_sets, faults, trackVars,
                moreVars>>

NextParams == Into

SpecParams == InitParams /\ [][NextParams]_vars

\* The derived parameters are the quotients and products the conversion
\* is said to take.
DerivedAsStated ==
    /\ params.n_sets
        = cparams.cache_size \div (cparams.lines_per_set * cparams.bytes_per_line)
    /\ params.n_sets_per_page = PAGE_SIZE \div cparams.bytes_per_line
    /\ params.n_colors = params.n_sets \div params.n_sets_per_page
    /\ params.v_buf = cparams.addr_num * PAGE_SIZE
    /\ params.n_lines = cparams.reachable_lines

\* n_sets / n_sets_per_page / n_colors of the profiles named.
ProfileValues ==
    /\ cparams = CORE_I7 =>
            <<params.n_sets, params.n_sets_per_page, params.n_colors>>
                = <<8192, 64, 128>>
    /\ cparams \in {XEON_E5, XEON_E5_DDIO} =>
            <<params.n_sets, params.n_sets_per_page, params.n_colors>>
                = <<16384, 64, 256>>

---------------------------------------------------------------------------
(* Specification SpecInitPos: one call of OnlineTracker::get_init_pos, as  *)
(* measure makes it, one call of prime, send_packet or probe per step.     *)
(* What a call returns is the environment's choice. SpecInitPosFair adds   *)
(* that the call, running on its own thread, keeps taking steps.           *)

\* The variables of the pattern, the finder and the context.
trackerVars ==
    <<pattern, pos, probe_res, win, rec, walk_start, walk_steps, walk_seen,
      patterns, found, ctx, arg>>

\* The pattern, the finder and the context at rest during operation o.
TrackerIdle(o) ==
    /\ op = o
    /\ pattern = <<>>
    /\ pos = 0
    /\ probe_res = <<>>
    /\ win = <<>>
    /\ rec = Unset
    /\ walk_start = 0
    /\ walk_steps = 0
    /\ walk_seen = <<>>
    /\ patterns = NoPatterns
    /\ found = Unset
    /\ ctx = TrackingContext_default
    /\ arg = 0

\* Variant: one more failure is borne.
too_many_late(err_cnt) == err_cnt > MAX_FAIL_CNT

\* if err_cnt >= MAX_FAIL_CNT { return Err(...) }
too_many(err_cnt) == err_cnt >= MAX_FAIL_CNT

InitInitPos ==
    /\ TrackerIdle("get_init_pos")
    /\ g_pc = "loop"
    /\ g_err_cnt = 0
    /\ g_log = <<>>
    /\ g_res = Unset
    /\ MeasureIdle
    /\ ClassifierIdle
    /\ RppIdle
    /\ BuildIdle
    /\ TrackIdle
    /\ LocateIdle
    /\ TrainIdle
    /\ RefreshIdle
    /\ SelectIdle
    /\ LateIdle

InitPosFrame ==
    UNCHANGED <<op, trackerVars, measureVars, classifierVars, rppVars,
                buildVars, trackVars, locateVars, trainVars, refreshVars,
                selectVars, lateVars>>

\* The head of the loop: the error once too many calls have failed, else
\* another turn.
LoopHead ==
    /\ g_pc = "loop"
    /\ IF too_many(g_err_cnt)
         THEN /\ g_pc' = "returned"
              /\ g_res' = Err("ERROR: Cannot determine the initial position in RX")
              /\ UNCHANGED g_log
         ELSE /\ g_pc' = "prime"
              /\ g_log' = <<>>
              /\ UNCHANGED g_res
    /\ UNCHANGED g_err_cnt
    /\ InitPosFrame

\* if self.rpp.prime(&self.pattern[0]).is_err() { err_cnt += 1; continue; }
PrimeFirst ==
    /\ g_pc = "prime"
    /\ \/ /\ g_log' = Append(g_log, <<"prime", "Ok">>)
          /\ g_pc' = "send"
          /\ UNCHANGED g_err_cnt
       \/ /\ g_log' = Append(g_log, <<"prime", "Err">>)
          /\ g_pc' = "loop"
          /\ g_err_cnt' = g_err_cnt + 1
    /\ UNCHANGED g_res
    /\ InitPosFrame

\* if self.send_packet().is_err() { err_cnt += 1; continue; }
SendFirst ==
    /\ g_pc = "send"
    /\ \/ /\ g_log' = Append(g_log, <<"send_packet", "Ok">>)
          /\ g_pc' = "probe"
          /\ UNCHANGED g_err_cnt
       \/ /\ g_log' = Append(g_log, <<"send_packet", "Err">>)
          /\ g_pc' = "loop"
          /\ g_err_cnt' = g_err_cnt + 1
    /\ UNCHANGED g_res
    /\ InitPosFrame

\* match self.rpp.probe(&self.pattern[0]) { Ok(Activated(_)) => break,
\* Err(_) => err_cnt += 1, _ => continue }, and Ok(1) after the loop.
ProbeFirst ==
    /\ g_pc = "probe"
    /\ \/ /\ g_log' = Append(g_log, <<"probe", Activated>>)
          /\ g_pc' = "returned"
          /\ g_res' = Ok(1)
          /\ UNCHANGED g_err_cnt
       \/ /\ g_log' = Append(g_log, <<"probe", "Err">>)
          /\ g_pc' = "loop"
          /\ g_err_cnt' = g_err_cnt + 1
          /\ UNCHANGED g_res
       \/ /\ g_log' = Append(g_log, <<"probe", Stale>>)
          /\ g_pc' = "loop"
          /\ UNCHANGED <<g_err_cnt, g_res>>
    /\ InitPosFrame

NextInitPos == LoopHead \/ PrimeFirst \/ SendFirst \/ ProbeFirst

SpecInitPos == InitInitPos /\ [][NextInitPos]_vars

SpecInitPosFair == SpecInitPos /\ WF_vars(NextInitPos)

\* The last call of the log failed.
LastFailed(log) == log # <<>> /\ log[Len(log)][2] = "Err"

\* C24 (states): Ok(1) is returned with the turn in hand being a prime
\* that succeeded, one send_packet that succeeded and a probe that
\* returned Activated; the error is returned with MAX_FAIL_CNT failures
\* counted, and no call is made once they are.
InitPosReturns ==
    /\ g_err_cnt <= MAX_FAIL_CNT
    /\ g_err_cnt = MAX_FAIL_CNT => g_pc \in {"loop", "returned"}
    /\ g_pc = "returned" =>
            IF g_res.ok
            THEN /\ g_res = Ok(1)
                 /\ g_log = <<<<"prime", "Ok">>, <<"send_packet", "Ok">>,
                               <<"probe", Activated>>>>
            ELSE /\ g_err_cnt = MAX_FAIL_CNT
                 /\ LastFailed(g_log)

\* C24 (steps): the error counter grows by one with every call that fails
\* and with nothing else, and Ok(1) is returned by the step that takes the
\* Activated probe.
InitPosSteps ==
    /\ g_err_cnt' # g_err_cnt <=> (g_log' # g_log /\ LastFailed(g_log'))
    /\ g_err_cnt' # g_err_cnt => g_err_cnt' = g_err_cnt + 1
    /\ (g_pc' = "returned" /\ g_res'.ok) =>
            /\ g_pc = "probe"
            /\ g_log = <<<<"prime", "Ok">>, <<"send_packet", "Ok">>>>

\* C24: get_init_pos returns Ok(1) only directly after a probe of
\* pattern[0] that returned Activated and that was preceded, in the same
\* turn of the loop, by a successful prime of pattern[0] and one
\* successful send_packet; every failed prime, send or probe increments
\* the error counter, and the error is returned once MAX_FAIL_CNT
\* failures have accumulated.
C24_InitPosProtocol == [][InitPosSteps]_vars /\ []InitPosReturns

\* The error has been returned after failures of all three calls.
C24_Witness ==
    /\ g_pc = "returned"
    /\ ~g_res.ok
    /\ g_err_cnt = MAX_FAIL_CNT
    /\ g_log = <<<<"prime", "Ok">>, <<"send_packet", "Ok">>, <<"probe", "Err">>>>

\* C26: track(cnt) eventually returns, whatever the connector and the
\* packet sender do. track returns only once its call of measure has, and
\* measure only once its call of get_init_pos has.
C26_TrackReturns == <>(g_pc = "returned")

---------------------------------------------------------------------------
(* Specification SpecLocate: one call of OnlineTracker::locate_rx_round on *)
(* an Rpp of up to MaxLocColors colors of up to MaxColorLen sets, one call *)
(* of prime, send_packet or probe per step. What a call returns is the     *)
(* environment's choice, with at most MaxHot probes Activated in a round.  *)

MaxLocColors == 2

MaxColorLen == 2

MaxHot == 1

\* The stored sets: color c has lens[c] sets of one address each, and a
\* color has one set or MaxColorLen sets.
LocateSets(lens) ==
    [c \in 1..Len(lens) |->
        [i \in 1..lens[c] |-> <<(c - 1) * PAGE_SIZE + Shl(i - 1, CTL_BIT)>>]]

LocateInputs ==
    {LocateSets(lens) :
        lens \in UNION {[1..n -> {1, MaxColorLen}] : n \in 0..MaxLocColors}}

\* self.rpp.colors_len()
colors_len(sets) == Len(sets)

\* self.rpp.color_len(color_code)
color_len(sets, color_code) == Len(sets[color_code + 1])

\* Variant: the sets of a color are passed once less.
passes_one_less(rep) == rep + 1 < REPEATINGS - 1

\* for _ in 0..REPEATINGS: another pass follows pass rep.
passes_left(rep) == rep + 1 < REPEATINGS

\* What the ring buffer does to the probes of a round: any probe may be
\* answered Activated, MaxHot of them at most, or exactly the probes of
\* the sets in hot.sets in pass hot.pass are.
AnyProbe == [any |-> TRUE, sets |-> {}, pass |-> 0]

probe_answers(hot, act, color_code, r, idx) ==
    IF hot.any
      THEN {Stale} \cup (IF act < MaxHot THEN {Activated} ELSE {})
      ELSE IF <<color_code, idx>> \in hot.sets /\ r = hot.pass
      THEN {Activated}
      ELSE {Stale}

LocateRest ==
    /\ colored_sets \in LocateInputs
    /\ patterns = NoPatterns
    /\ l_pc = "start"
    /\ l_color = 0
    /\ l_rep = 0
    /\ l_idx = 0
    /\ l_trace = <<>>
    /\ l_log = <<>>
    /\ l_act = 0
    /\ l_res = Unset
    /\ pattern = <<>>
    /\ pos = 0
    /\ probe_res = <<>>
    /\ win = <<>>
    /\ rec = Unset
    /\ walk_start = 0
    /\ walk_steps = 0
    /\ walk_seen = <<>>
    /\ found = Unset
    /\ ctx = TrackingContext_default
    /\ arg = 0
    /\ set_code = <<0, 0>>
    /\ cand = <<>>
    /\ replies = <<>>
    /\ calls = <<>>
    /\ rpp_res = Unset
    /\ MeasureIdle
    /\ ClassifierIdle
    /\ BuildIdle
    /\ TrackIdle
    /\ InitPosIdle
    /\ TrainIdle
    /\ RefreshIdle
    /\ SelectIdle
    /\ LateIdle

InitLocate ==
    /\ op = "locate_rx_round"
    /\ l_hot = AnyProbe
    /\ LocateRest

LocateFrame ==
    UNCHANGED <<op, pattern, pos, probe_res, win, rec, walk_start, walk_steps,
                walk_seen, found, ctx, arg, measureVars, classifierVars,
                rppVars, buildVars, trackVars, initPosVars, trainVars,
                refreshVars, selectVars, lateVars>>

\* The call fails: its error is returned.
LocateFails(call) ==
    /\ l_log' = Append(l_log, <<call, <<l_color, l_idx>>, "Err">>)
    /\ l_pc' = "returned"
    /\ l_res' = Err("ERROR: connector")
    /\ UNCHANGED <<l_color, l_rep, l_idx, l_trace, l_act, l_hot, patterns>>

\* The call succeeds: the next call of the set follows.
LocatePasses(call, next) ==
    /\ l_log' = Append(l_log, <<call, <<l_color, l_idx>>, "Ok">>)
    /\ l_pc' = next
    /\ UNCHANGED <<l_color, l_rep, l_idx, l_trace, l_act, l_hot,
                    l_res, patterns>>

\* for color_code in color_codes: no color, and Ok(patterns) at once.
LocateStart ==
    /\ l_pc = "start"
    /\ IF colors_len(colored_sets) = 0
         THEN /\ l_pc' = "returned"
              /\ l_res' = Ok(patterns)
         ELSE /\ l_pc' = "prime"
              /\ UNCHANGED l_res
    /\ UNCHANGED <<l_color, l_rep, l_idx, l_trace, l_log, l_act, l_hot,
                  patterns>>
    /\ LocateFrame

\* self.rpp.prime(&set_code)?
LocatePrime ==
    /\ l_pc = "prime"
    /\ \E call \in {<<"prime", <<l_color, l_idx>>>>} :
        \/ /\ l_log' = <<<<call[1], call[2], "Ok">>>>
           /\ l_pc' = "send"
           /\ UNCHANGED <<l_color, l_rep, l_idx, l_trace, l_act, l_hot,
                    l_res, patterns>>
        \/ /\ l_log' = <<<<call[1], call[2], "Err">>>>
           /\ l_pc' = "returned"
           /\ l_res' = Err("ERROR: connector")
           /\ UNCHANGED <<l_color, l_rep, l_idx, l_trace, l_act, l_hot, patterns>>
    /\ LocateFrame

\* self.send_packet()?, the first of the two
LocateSend ==
    /\ l_pc = "send"
    /\ LocatePasses("send_packet", "send_again") \/ LocateFails("send_packet")
    /\ LocateFrame

\* self.send_packet()?, the second
LocateSendAgain ==
    /\ l_pc = "send_again"
    /\ LocatePasses("send_packet", "probe") \/ LocateFails("send_packet")
    /\ LocateFrame

\* if self.rpp.probe(&set_code)?.is_activated() { pattern.push(Some(..)) }
\* else { pattern.push(None) }, and the heads of the three loops: the next
\* set, the next pass, or patterns.insert(color_code, pattern) and the
\* next color, or Ok(patterns).
LocateProbe ==
    /\ l_pc = "probe"
    /\ \/ /\ LocateFails("probe")
       \/ \E res \in probe_answers(l_hot, l_act, l_color, l_rep, l_idx) :
          \E trace \in {Append(l_trace, IF is_activated(res)
                                         THEN Some(l_idx) ELSE None)} :
            /\ l_log' = Append(l_log, <<"probe", <<l_color, l_idx>>, res>>)
            /\ l_act' = IF is_activated(res) THEN l_act + 1 ELSE l_act
            /\ UNCHANGED l_hot
            /\ IF l_idx + 1 < color_len(colored_sets, l_color)
                 THEN /\ l_idx' = l_idx + 1
                      /\ l_trace' = trace
                      /\ l_pc' = "prime"
                      /\ UNCHANGED <<l_color, l_rep, l_res, patterns>>
                 ELSE IF passes_left(l_rep)
                 THEN /\ l_idx' = 0
                      /\ l_rep' = l_rep + 1
                      /\ l_trace' = trace
                      /\ l_pc' = "prime"
                      /\ UNCHANGED <<l_color, l_res, patterns>>
                 ELSE /\ patterns' = (l_color :> trace) @@ patterns
                      /\ l_idx' = 0
                      /\ l_rep' = 0
                      /\ l_trace' = <<>>
                      /\ l_color' = l_color + 1
                      /\ IF l_color + 1 < colors_len(colored_sets)
                           THEN /\ l_pc' = "prime"
                                /\ UNCHANGED l_res
                           ELSE /\ l_pc' = "returned"
                                /\ l_res' = Ok(patterns')
    /\ LocateFrame

NextLocate ==
    LocateStart \/ LocatePrime \/ LocateSend \/ LocateSendAgain \/ LocateProbe

SpecLocate == InitLocate /\ [][NextLocate]_vars

(***************************************************************************)
(* locate_rx: the round, and Pattern::find on the traces it returns.  The  *)
(* ring buffer answers Activated to the probes of a chosen group of sets,  *)
(* in the first or in the last pass.                                       *)
(***************************************************************************)

HotPasses == {0, REPEATINGS - 1}

SetCodes(sets) ==
    UNION {{<<c, i>> : i \in 0..(color_len(sets, c) - 1)} :
              c \in 0..(colors_len(sets) - 1)}

HotInputs(sets) ==
    {[any |-> FALSE, sets |-> h, pass |-> p] :
        h \in SUBSET SetCodes(sets), p \in HotPasses}

InitLocateRx ==
    /\ op = "locate_rx"
    /\ LocateRest
    /\ l_hot \in HotInputs(colored_sets)

\* let patterns = self.locate_rx_round()?;
\* self.pattern = Pattern::find(patterns)?;
LocateRxFind ==
    /\ op = "locate_rx"
    /\ l_pc = "returned"
    /\ op' = "located"
    /\ IF l_res.ok
         THEN \E fnd \in {find(l_res.val)} :
                /\ found' = fnd
                /\ pattern' = IF fnd.ok THEN fnd.val ELSE pattern
         ELSE /\ found' = l_res
              /\ UNCHANGED pattern
    /\ UNCHANGED <<pos, probe_res, win, rec, walk_start, walk_steps,
                   walk_seen, patterns, ctx, arg, measureVars, classifierVars,
                   rppVars, buildVars, trackVars, initPosVars, locateVars,
                   trainVars, refreshVars, selectVars, lateVars>>

NextLocateRx == NextLocate \/ LocateRxFind

SpecLocateRx == InitLocateRx /\ [][NextLocateRx]_vars

\* The calls made for a set, in order.
VisitCalls == <<"prime", "send_packet", "send_packet", "probe">>

\* How many calls for the set in hand have returned Ok.
CallsDone ==
    CASE l_pc = "prime" -> 0
      [] l_pc = "send" -> 1
      [] l_pc = "send_again" -> 2
      [] l_pc = "probe" -> 3
      [] OTHER -> 0

\* A trace is made of whole passes over the len sets of a color followed
\* by the start of one: entry k is None or Some(k mod len).
InIndexOrder(trace, len) ==
    \A k \in 1..Len(trace) : trace[k] \in {None, Some((k - 1) % len)}

\* C25 (states): the colors are visited in order and each set of a color
\* REPEATINGS times in the order of the colored index; the calls for a
\* set are prime, send_packet, send_packet, probe; the trace of a color
\* that is done has 8 * color_len entries; a failing call is the last one
\* made and its error is returned.
LocateOrder ==
    /\ DOMAIN patterns = 0..(l_color - 1)
    /\ \A c \in DOMAIN patterns :
            /\ Len(patterns[c]) = REPEATINGS * color_len(colored_sets, c)
            /\ InIndexOrder(patterns[c], color_len(colored_sets, c))
    /\ l_pc \in {"prime", "send", "send_again", "probe"} =>
            /\ l_color < colors_len(colored_sets)
            /\ l_rep < REPEATINGS
            /\ l_idx < color_len(colored_sets, l_color)
            /\ Len(l_trace) = l_rep * color_len(colored_sets, l_color) + l_idx
            /\ InIndexOrder(l_trace, color_len(colored_sets, l_color))
            /\ l_pc # "prime" =>
                    /\ Len(l_log) = CallsDone
                    /\ \A k \in 1..Len(l_log) :
                            l_log[k] = <<VisitCalls[k], <<l_color, l_idx>>, "Ok">>
    /\ l_pc = "returned" =>
            IF l_res.ok
            THEN /\ l_res.val = patterns
                 /\ l_color = colors_len(colored_sets)
            ELSE /\ l_log # <<>>
                 /\ l_log[Len(l_log)][3] = "Err"
                 /\ \A k \in 1..Len(l_log) :
                        /\ l_log[k][1] = VisitCalls[k]
                        /\ l_log[k][2] = <<l_color, l_idx>>
                        /\ k < Len(l_log) => l_log[k][3] = "Ok"

\* C25 (steps): a probe that returns appends Some(colored index) when it
\* is Activated and None otherwise, nothing else touches a trace, and
\* nothing follows the return.
LocateSteps ==
    /\ l_pc # "returned"
    /\ ((l_pc = "probe" /\ l_pc' # "returned") \/ l_color' # l_color) =>
            LET res == l_log'[Len(l_log')][3]
                trace == IF l_color' = l_color THEN l_trace'
                         ELSE patterns'[l_color]
            IN  /\ l_log'[Len(l_log')][1] = "probe"
                /\ trace = Append(l_trace, IF res = Activated THEN Some(l_idx)
                                            ELSE None)
    /\ l_pc # "probe" => UNCHANGED <<l_trace, patterns>>

\* C25: one round of locate_rx visits every profiled color and, for each,
\* passes REPEATINGS times over all its sets in the order of the colored
\* index; for each set it issues prime, two send_packet calls and probe,
\* in that order, and appends Some(colored index) if the probe is
\* Activated and None otherwise, so that the trace of a color has
\* 8 * color_len entries; the first failing prime, send or probe aborts
\* the round with that error.
C25_LocateRound == [][LocateSteps]_vars /\ []LocateOrder

\* The round has returned the traces of MaxLocColors colors of
\* MaxColorLen sets, one of them with an activation.
\* Every set of the color was answered Activated in one pass at least.
FullyActivated(c) ==
    \A i \in 0..(color_len(colored_sets, c) - 1) :
        \E k \in 1..Len(patterns[c]) : patterns[c][k] = Some(i)

TracesInIndexOrder ==
    /\ \A c \in DOMAIN patterns :
          InIndexOrder(patterns[c], color_len(colored_sets, c))
    /\ l_color < colors_len(colored_sets)
          => InIndexOrder(l_trace, color_len(colored_sets, l_color))

LocatedOne ==
    (op = "located" /\ l_res.ok) =>
        \E full \in {{c \in DOMAIN patterns : FullyActivated(c)}} :
            /\ found.ok <=> Cardinality(full) = 1
            /\ found.ok =>
                  \E c \in full :
                    /\ pattern = IdentityPattern(c, color_len(colored_sets, c))
                    /\ found.val = pattern
            /\ ~found.ok => pattern = <<>>

RoundErrorReturned ==
    (op = "located" /\ ~l_res.ok) => (found = l_res /\ pattern = <<>>)

\* C38: every entry of a trace of locate_rx_round at the position of set i
\* is None or Some(i); when the round is over locate_rx succeeds exactly
\* when one color and no more had every one of its sets activated in one
\* pass at least, and the pattern it stores is then the sets of that color
\* in index order, each once; an error of the round is returned as it is.
C38_LocateRxIdentity ==
    TracesInIndexOrder /\ LocatedOne /\ RoundErrorReturned

\* Two colors of MaxColorLen sets, the sets of one of them and one set of
\* the other activated in the last pass: the pattern is stored.
C38_Witness ==
    /\ op = "located"
    /\ found.ok
    /\ Len(pattern) = MaxColorLen
    /\ colors_len(colored_sets) = 2
    /\ l_hot.pass = REPEATINGS - 1
    /\ Cardinality(l_hot.sets) = MaxColorLen + 1

C25_Witness ==
    /\ l_pc = "returned"
    /\ l_res.ok
    /\ DOMAIN l_res.val = 0..(MaxLocColors - 1)
    /\ \A c \in DOMAIN l_res.val : Len(l_res.val[c]) = REPEATINGS * MaxColorLen
    /\ l_act > 0

---------------------------------------------------------------------------
(* Specification SpecTrain: Rpp::train_classifier(sampls_num) on a fresh   *)
(* classifier, one connector call per step. The connector answers every    *)
(* time_access with a latency of 1..MaxTime or an error.                   *)

MaxTrainPages == 2

\* Every sequence of n distinct elements of seq.
RECURSIVE Arrangements(_, _)
Arrangements(seq, n) ==
    IF n = 0 THEN {<<>>}
    ELSE UNION {{<<seq[i]>> \o rest :
                    rest \in Arrangements(SelectSeq(seq, LAMBDA a : a # seq[i]),
                                          n - 1)} : i \in 1..Len(seq)}

\* choose_multiple(&mut rng, amount): amount distinct elements of the
\* slice, all of them when it has fewer, in any order.
choose_multiple(slice, amount) ==
    Arrangements(slice, IF amount < Len(slice) THEN amount ELSE Len(slice))

\* Variant: every pair of timings is kept.
keep_every_sample(hit_time, miss_time) == TRUE

\* if hit_time < miss_time
keep_sample(hit_time, miss_time) == hit_time < miss_time

InitTrain ==
    /\ op = "train_classifier"
    /\ \E pages \in 0..MaxTrainPages :
            addrs = InitialPools([v_buf |-> pages * PAGE_SIZE])
    /\ \E sampls_num \in 0..MaxSamples :
            trn_left \in choose_multiple(addrs[1], sampls_num)
    /\ trn_pc = "time_miss"
    /\ trn_miss = 0
    /\ trn_log = <<>>
    /\ classifier = TimingClassifier_new
    /\ cl_mode = "idle"
    /\ verdict = None
    /\ cparams = <<>>
    /\ params = <<>>
    /\ quite = FALSE
    /\ build_pc = "idle"
    /\ b_err_cnt = 0
    /\ cur_set = <<>>
    /\ variant = 0
    /\ new_sets = <<>>
    /\ faults = 0
    /\ pattern = <<>>
    /\ pos = 0
    /\ probe_res = <<>>
    /\ win = <<>>
    /\ rec = Unset
    /\ walk_start = 0
    /\ walk_steps = 0
    /\ walk_seen = <<>>
    /\ patterns = NoPatterns
    /\ found = Unset
    /\ ctx = TrackingContext_default
    /\ arg = 0
    /\ MeasureIdle
    /\ RppIdle
    /\ TrackIdle
    /\ InitPosIdle
    /\ LocateIdle
    /\ RefreshIdle
    /\ SelectIdle
    /\ LateIdle

TrainFrame ==
    UNCHANGED <<op, pattern, pos, probe_res, win, rec, walk_start, walk_steps,
                walk_seen, patterns, found, ctx, arg, measureVars, cl_mode,
                verdict, rppVars, buildVars, trackVars, initPosVars,
                locateVars, refreshVars, selectVars, lateVars>>

\* A call of the connector fails: expect panics.
TrainPanics(call) ==
    /\ trn_log' = Append(trn_log, <<call, trn_left[1], "Err">>)
    /\ trn_pc' = "panicked"
    /\ UNCHANGED <<trn_left, trn_miss, classifier>>

\* for &ofs in ...: no address is left.
TrainDone ==
    /\ trn_pc = "time_miss"
    /\ trn_left = <<>>
    /\ trn_pc' = "returned"
    /\ UNCHANGED <<trn_left, trn_miss, trn_log, classifier>>
    /\ TrainFrame

\* let miss_time = self.conn.time_access(ofs).expect(..)
TimeMiss ==
    /\ trn_pc = "time_miss"
    /\ trn_left # <<>>
    /\ \/ TrainPanics("time_access")
       \/ \E lat \in 1..MaxTime :
            /\ trn_miss' = lat
            /\ trn_log' = Append(trn_log, <<"time_access", trn_left[1], lat>>)
            /\ trn_pc' = "cache"
            /\ UNCHANGED <<trn_left, classifier>>
    /\ TrainFrame

\* self.conn.cache(ofs).expect(..)
CacheSample ==
    /\ trn_pc = "cache"
    /\ \/ TrainPanics("cache")
       \/ /\ trn_log' = Append(trn_log, <<"cache", trn_left[1], 0>>)
          /\ trn_pc' = "time_hit"
          /\ UNCHANGED <<trn_left, trn_miss, classifier>>
    /\ TrainFrame

\* let hit_time = self.conn.time_access(ofs).expect(..); if hit_time <
\* miss_time { record(Hit(hit_time)); record(Miss(miss_time)) }, and the
\* next address.
TimeHit ==
    /\ trn_pc = "time_hit"
    /\ \/ TrainPanics("time_access")
       \/ \E hit_time \in 1..MaxTime :
            /\ trn_log' = Append(trn_log, <<"time_access", trn_left[1], hit_time>>)
            /\ classifier' =
                    IF keep_sample(hit_time, trn_miss)
                    THEN record(record(classifier, CacheHit(hit_time)),
                                CacheMiss(trn_miss))
                    ELSE classifier
            /\ trn_left' = Tail(trn_left)
            /\ trn_miss' = 0
            /\ trn_pc' = "time_miss"
    /\ TrainFrame

NextTrain == TrainDone \/ TimeMiss \/ CacheSample \/ TimeHit

SpecTrain == InitTrain /\ [][NextTrain]_vars

\* The calls of one sampled address, in order.
SampleCalls == <<"time_access", "cache", "time_access">>

\* The k-th call of the log is the call the order of a sample asks for.
InSampleOrder(k) == trn_log[k][1] = SampleCalls[((k - 1) % 3) + 1]

\* C27 (order): the log is made of the calls time_access, cache,
\* time_access of one address after the other, all on that address.
SampleOrder ==
    /\ \A k \in 1..Len(trn_log) : InSampleOrder(k)
    /\ \A k \in 2..Len(trn_log) :
            (k - 1) % 3 # 0 => trn_log[k][2] = trn_log[k - 1][2]

\* The step finishes a sample: its second time_access returns.
FinishesSample == trn_pc = "time_hit" /\ trn_pc' = "time_miss"

\* The pair of the sample in hand goes to the classifier.
PairRecorded ==
    /\ BagCardinality(classifier'.hits) = BagCardinality(classifier.hits) + 1
    /\ BagCardinality(classifier'.misses) = BagCardinality(classifier.misses) + 1
    /\ BagIn(trn_log'[Len(trn_log')][3], classifier'.hits)
    /\ BagIn(trn_miss, classifier'.misses)

\* C27 as stated: the pair is recorded whenever miss time >= hit time and
\* discarded only when miss time < hit time.
C27_AsStated ==
    [][FinishesSample =>
        IF trn_miss >= trn_log'[Len(trn_log')][3]
        THEN PairRecorded ELSE UNCHANGED classifier]_vars

\* C27 (amended): in classifier training the calls for each sampled
\* address are time_access, cache, time_access, in that order; the pair is
\* recorded exactly when the miss time is greater than the hit time and
\* discarded when it is smaller or equal; no other step changes the
\* classifier.
C27_StrictlyGreater ==
    /\ []SampleOrder
    /\ [][IF FinishesSample
          THEN IF trn_miss > trn_log'[Len(trn_log')][3]
               THEN PairRecorded ELSE UNCHANGED classifier
          ELSE UNCHANGED classifier]_vars

\* Training has returned after a sample of equal times, which was
\* discarded, and one with a slower miss, which was recorded.
C27_Witness ==
    /\ trn_pc = "returned"
    /\ \E k \in 1..Len(trn_log) :
            /\ k % 3 = 0
            /\ trn_log[k][3] = trn_log[k - 2][3]
    /\ BagCardinality(classifier.hits) = 1
    /\ BagCardinality(classifier.misses) = 1

---------------------------------------------------------------------------
(* Specification SpecRefresh: the calls of train_classifier that           *)
(* Rpp::build_sets makes, on an address table of about RefreshLimit pages. *)
(* A turn of the while loop is one step; what build_initial_set and        *)
(* add_sets do in it (how many addresses leave the pools, whether a color  *)
(* is stored) is the environment's choice.                                 *)

TIMINGS_INIT_FILL == 150

TIMING_REFRESH_FILL == 50

RefreshLimit == 500

MaxSpare == 2

MaxTaken == 2

MaxTurns == 3

\* if self.addrs.len() > 500: addrs is the table of the pools.
refresh_due(table) == Len(table) > RefreshLimit

\* The first n addresses leave every pool of the table.
Shrunk(table, n) ==
    [i \in 1..Len(table) |-> SubSeq(table[i], n + 1, Len(table[i]))]

RefreshInputs ==
    {CacheParams_new(64, 1, 1, colors * PAGE_SIZE, pages) :
        colors \in 1..MaxColors,
        pages \in (RefreshLimit - 1)..(RefreshLimit + MaxSpare)}

InitRefresh ==
    /\ op = "build_sets"
    /\ cparams \in RefreshInputs
    /\ params = RppParams_from(cparams)
    /\ quite \in BOOLEAN
    /\ addrs = InitialPools(params)
    /\ colored_sets = <<>>
    /\ build_pc = "reserve"
    /\ trained = <<>>
    /\ r_iters = 0
    /\ b_err_cnt = 0
    /\ cur_set = <<>>
    /\ variant = 0
    /\ new_sets = <<>>
    /\ faults = 0
    /\ set_code = <<0, 0>>
    /\ cand = <<>>
    /\ replies = <<>>
    /\ calls = <<>>
    /\ rpp_res = Unset
    /\ pattern = <<>>
    /\ pos = 0
    /\ probe_res = <<>>
    /\ win = <<>>
    /\ rec = Unset
    /\ walk_start = 0
    /\ walk_steps = 0
    /\ walk_seen = <<>>
    /\ patterns = NoPatterns
    /\ found = Unset
    /\ ctx = TrackingContext_default
    /\ arg = 0
    /\ MeasureIdle
    /\ ClassifierIdle
    /\ TrackIdle
    /\ InitPosIdle
    /\ LocateIdle
    /\ TrainIdle
    /\ SelectIdle
    /\ LateIdle

RefreshFrame ==
    UNCHANGED <<op, pattern, pos, probe_res, win, rec, walk_start, walk_steps,
                walk_seen, patterns, found, ctx, arg, measureVars,
                classifierVars, set_code, cand, replies, calls, rpp_res,
                cparams, params, quite, b_err_cnt, cur_set, variant, new_sets,
                faults, trackVars, initPosVars, locateVars, trainVars,
                selectVars, lateVars>>

\* self.conn.reserve(self.params.v_buf); self.train_classifier(TIMINGS_INIT_FILL)
TrainFirst ==
    /\ build_pc = "reserve"
    /\ trained' = Append(trained, TIMINGS_INIT_FILL)
    /\ build_pc' = "loop"
    /\ UNCHANGED <<addrs, colored_sets, r_iters>>
    /\ RefreshFrame

\* One turn of while self.colored_sets.len() < pages_to_profile: a color is
\* built and stored, or build_initial_set fails, and then
\* if self.addrs.len() > 500 { self.train_classifier(TIMING_REFRESH_FILL) }.
BuildTurn ==
    /\ build_pc = "loop"
    /\ Len(colored_sets) < params.n_colors
    /\ r_iters < MaxTurns
    /\ \E taken \in 0..MaxTaken :
        \E table \in {Shrunk(addrs, taken)} :
            /\ addrs' = table
            /\ colored_sets' = IF taken = 0 THEN colored_sets
                               ELSE Append(colored_sets,
                                           <<SubSeq(addrs[1], 1, taken)>>)
            /\ trained' = IF refresh_due(table)
                            THEN Append(trained, TIMING_REFRESH_FILL)
                            ELSE trained
    /\ r_iters' = r_iters + 1
    /\ UNCHANGED build_pc
    /\ RefreshFrame

\* A panic inside the turn (add_sets failed more than RETRY_CNT times, or
\* UnexpectedEof with the progress shown): no training follows.
BuildPanics ==
    /\ build_pc = "loop"
    /\ Len(colored_sets) < params.n_colors
    /\ r_iters < MaxTurns
    /\ build_pc' = "panic"
    /\ r_iters' = r_iters + 1
    /\ UNCHANGED <<addrs, colored_sets, trained>>
    /\ RefreshFrame

\* The while loop ends: every color is profiled.
BuildFinished ==
    /\ build_pc = "loop"
    /\ Len(colored_sets) >= params.n_colors
    /\ build_pc' = "finished"
    /\ UNCHANGED <<addrs, colored_sets, trained, r_iters>>
    /\ RefreshFrame

NextRefresh == TrainFirst \/ BuildTurn \/ BuildPanics \/ BuildFinished

SpecRefresh == InitRefresh /\ [][NextRefresh]_vars

\* The step is a full turn of the build loop.
TurnEnds == build_pc = "loop" /\ build_pc' = "loop" /\ r_iters' = r_iters + 1

\* C28: build_sets trains the classifier with TIMINGS_INIT_FILL samples
\* before the first set is built, and after every turn of the build loop
\* it retrains with TIMING_REFRESH_FILL samples exactly when pool 0 still
\* holds at least 500 addresses.
C28_RefreshWhilePoolLarge ==
    /\ [](build_pc # "reserve" => trained # <<>> /\ trained[1] = TIMINGS_INIT_FILL)
    /\ [][TurnEnds =>
            trained' = IF Len(addrs'[1]) >= RefreshLimit
                       THEN Append(trained, TIMING_REFRESH_FILL)
                       ELSE trained]_vars

---------------------------------------------------------------------------
(* Specification SpecSelect: one call of Rpp::forward_selection(idx, addr) *)
(* on the address table of with_params, of up to MaxPages pages or of      *)
(* ManyPages pages, with addr any address of the pool. The cache answers   *)
(* right, or spoils one of the first MaxFaultAt calls of check_evicts.     *)

ManyPages == 30

SelectPages == 0..MaxPages \cup {ManyPages}

InitSelect ==
    /\ op = "forward_selection"
    /\ \E pages \in SelectPages :
            addrs = InitialPools([v_buf |-> pages * PAGE_SIZE])
    /\ fs_idx \in {0, 1, NUM_VARIANTS - 1}
    /\ fs_addr \in Elems(addrs[fs_idx + 1]) \cup {Shl(fs_idx, CTL_BIT)}
    /\ fs_env \in UNION {Envs(n_lines, 1) : n_lines \in 1..MaxLines}
    /\ fs_pc = "call"
    /\ fs_res = <<>>
    /\ colored_sets = <<>>
    /\ set_code = <<0, 0>>
    /\ cand = <<>>
    /\ replies = <<>>
    /\ calls = <<>>
    /\ rpp_res = Unset
    /\ cparams = <<>>
    /\ params = <<>>
    /\ quite = FALSE
    /\ build_pc = "idle"
    /\ b_err_cnt = 0
    /\ cur_set = <<>>
    /\ variant = 0
    /\ new_sets = <<>>
    /\ faults = 0
    /\ pattern = <<>>
    /\ pos = 0
    /\ probe_res = <<>>
    /\ win = <<>>
    /\ rec = Unset
    /\ walk_start = 0
    /\ walk_steps = 0
    /\ walk_seen = <<>>
    /\ patterns = NoPatterns
    /\ found = Unset
    /\ ctx = TrackingContext_default
    /\ arg = 0
    /\ MeasureIdle
    /\ ClassifierIdle
    /\ TrackIdle
    /\ InitPosIdle
    /\ LocateIdle
    /\ TrainIdle
    /\ RefreshIdle
    /\ LateIdle

\* self.forward_selection(idx, addr)
ForwardSelection ==
    /\ fs_pc = "call"
    /\ fs_res' = forward_selection(addrs[fs_idx + 1], fs_addr, fs_env, 0)
    /\ fs_pc' = "returned"
    /\ UNCHANGED <<op, pattern, pos, probe_res, win, rec, walk_start,
                   walk_steps, walk_seen, patterns, found, ctx, arg,
                   measureVars, classifierVars, rppVars, buildVars, trackVars,
                   initPosVars, locateVars, trainVars, refreshVars, lateVars,
                   fs_idx, fs_addr, fs_env>>

NextSelect == ForwardSelection

SpecSelect == InitSelect /\ [][NextSelect]_vars

\* The pool forward_selection works on.
SelectPool == addrs[fs_idx + 1]

\* The prefix tested for n.
Prefix(n) == SubSeq(SelectPool, 1, n - 1)

\* The first n tested.
FirstN == Max(Len(SelectPool) \div 10, fs_env.n_lines + 1)

\* What check_evicts answers when the prefix for n is tested, the calls
\* being made for FirstN, FirstN + 1, ... in that order.
Answer(n) == Evicts(fs_env, n - FirstN + 1, Prefix(n), fs_addr)

\* The n whose test ends the search: the first one that is answered by
\* true or by an error.
Ending == {n \in FirstN..Len(SelectPool) : ~Answer(n).ok \/ Answer(n).val}

\* C30: forward_selection(idx, x) fails with the no addrs left error,
\* without a call of check_evicts, when pool idx has fewer than n_lines + 1
\* addresses; otherwise it tests the prefixes of length n - 1 for
\* n = max(|pool| / 10, n_lines + 1), n + 1, ..., |pool| in that order and
\* returns the first one for which check_evicts is true (the error of
\* check_evicts if one comes first), so that a returned set is a prefix of
\* the pool of at least n_lines and at most |pool| - 1 addresses; it fails
\* when no tested prefix evicts x.
ForwardResult ==
    fs_pc = "returned" =>
        /\ Len(SelectPool) < fs_env.n_lines + 1 =>
                fs_res = [ret |-> Err("ERROR: No addrs left"), k |-> 0]
        /\ Len(SelectPool) >= fs_env.n_lines + 1 =>
                IF Ending = {}
                THEN /\ ~fs_res.ret.ok
                     /\ fs_res.k = Len(SelectPool) - FirstN + 1
                ELSE LET n == CHOOSE m \in Ending : \A o \in Ending : m <= o
                     IN  /\ fs_res.k = n - FirstN + 1
                         /\ fs_res.ret = IF Answer(n).ok THEN Ok(Prefix(n))
                                          ELSE Answer(n)
        /\ fs_res.ret.ok =>
                /\ Len(fs_res.ret.val) >= fs_env.n_lines
                /\ Len(fs_res.ret.val) <= Len(SelectPool) - 1
                /\ fs_res.ret.val = SubSeq(SelectPool, 1, Len(fs_res.ret.val))

---------------------------------------------------------------------------
(* Specification SpecInitialSet: one call of Rpp::build_initial_set on the *)
(* address table of with_params, of up to MaxPages pages. The seed is any  *)
(* address of pool 0; the cache answers right, or spoils one of the first  *)
(* MaxFaultAt calls of check_evicts.                                       *)

\* Every variable outside the address table and the call at rest.
InitialRest ==
    /\ colored_sets = <<>>
    /\ set_code = <<0, 0>>
    /\ cand = <<>>
    /\ replies = <<>>
    /\ calls = <<>>
    /\ rpp_res = Unset
    /\ cparams = <<>>
    /\ params = <<>>
    /\ quite = FALSE
    /\ build_pc = "idle"
    /\ b_err_cnt = 0
    /\ cur_set = <<>>
    /\ variant = 0
    /\ new_sets = <<>>
    /\ faults = 0
    /\ pattern = <<>>
    /\ pos = 0
    /\ probe_res = <<>>
    /\ win = <<>>
    /\ rec = Unset
    /\ walk_start = 0
    /\ walk_steps = 0
    /\ walk_seen = <<>>
    /\ patterns = NoPatterns
    /\ found = Unset
    /\ ctx = TrackingContext_default
    /\ arg = 0
    /\ MeasureIdle
    /\ ClassifierIdle
    /\ TrackIdle
    /\ InitPosIdle
    /\ LocateIdle
    /\ TrainIdle
    /\ RefreshIdle
    /\ SelectIdle
    /\ RetryIdle

InitInitialSet ==
    /\ op = "build_initial_set"
    /\ \E pages \in 0..MaxPages :
            addrs = InitialPools([v_buf |-> pages * PAGE_SIZE])
    /\ bi_pools = addrs
    /\ bi_env \in UNION {Envs(n_lines, 1) : n_lines \in 1..MaxLines}
    /\ bi_pc = "call"
    /\ bi_seed = 0
    /\ bi_res = <<>>
    /\ InitialRest
    /\ BackIdle

InitialFrame ==
    UNCHANGED <<op, pattern, pos, probe_res, win, rec, walk_start, walk_steps,
                walk_seen, patterns, found, ctx, arg, measureVars,
                classifierVars, rppVars, cparams, params, quite, build_pc,
                b_err_cnt, cur_set, variant, new_sets, faults, trackVars,
                initPosVars, locateVars, trainVars, refreshVars, selectVars,
                backVars, retryVars, bi_pools, bi_env>>

\* self.build_initial_set(), pool 0 being empty: choose finds nothing.
NoSeed ==
    /\ bi_pc = "call"
    /\ addrs[1] = <<>>
    /\ bi_res' = [ret |-> Err("ERROR: No addrs left"), k |-> 0]
    /\ bi_pc' = "returned"
    /\ UNCHANGED <<addrs, bi_seed>>
    /\ InitialFrame

\* self.build_initial_set() with the address that choose draws.
CallBuildInitialSet ==
    /\ bi_pc = "call"
    /\ addrs[1] # <<>>
    /\ \E addr \in Elems(addrs[1]) :
       \E built \in {build_initial_set(addrs, addr, bi_env, 0)} :
            /\ bi_seed' = addr
            /\ addrs' = built.addrs
            /\ bi_res' = [ret |-> built.ret, k |-> built.k]
    /\ bi_pc' = "returned"
    /\ InitialFrame

NextInitialSet == NoSeed \/ CallBuildInitialSet

SpecInitialSet == InitInitialSet /\ [][NextInitialSet]_vars

\* Forward selection failed for the seed: no tested subset evicted it.
NoSubsetEvicts ==
    /\ bi_pc = "returned"
    /\ ~bi_res.ret.ok
    /\ bi_res.ret.err = "ERROR: cannot build set for the chosen address."

\* C31: when forward selection for a seed drawn from pool 0 fails because
\* no tested subset evicts it, the seed is removed from pool 0.
C31_SeedRetired == NoSubsetEvicts => bi_seed \notin Elems(addrs[1])

\* What check_evicts(S, a) answers in cleanup_congruent for the j-th
\* address of the pool it walks, calls_before calls having been made by
\* the selections.
CleanupAnswer(S, pool, j, calls_before) ==
    Evicts(bi_env, calls_before + j, S, pool[j])

\* The calls of check_evicts that forward and backward selection made.
SelectionCalls == build_set_for_idx_addr(bi_pools, 0, bi_seed, bi_env, 0).k

\* The positions of pool 0, as it was, whose address is to stay: it is not
\* in S and check_evicts did not return true for it during the cleanup.
Staying(S) ==
    LET walked == SelectSeq(bi_pools[1], LAMBDA a : a \notin Elems(S))
    IN  {walked[j] : j \in {i \in 1..Len(walked) :
                        \E answer \in {CleanupAnswer(S, walked, i,
                                                     SelectionCalls)} :
                            ~(answer.ok /\ answer.val)}}

\* C33: after build_initial_set returns Ok(S), pool 0 holds no address of
\* S and none for which check_evicts(S, a) returned true during the
\* cleanup; every other address of pool 0 is still there, in its original
\* relative order, and pools 1..63 are unchanged.
C33_InitialSetCleanup ==
    (bi_pc = "returned" /\ bi_res.ret.ok) =>
        /\ addrs[1] = SelectSeq(bi_pools[1],
                                LAMBDA a : a \in Staying(bi_res.ret.val))
        /\ Elems(addrs[1]) \cap Elems(bi_res.ret.val) = {}
        /\ \A i \in 2..Len(addrs) : addrs[i] = bi_pools[i]

\* A set was returned from a pool that held more than its addresses: the
\* cleanup took one out and left one in.
C33_Witness ==
    /\ bi_pc = "returned"
    /\ bi_res.ret.ok
    /\ Len(addrs[1]) > 0
    /\ Len(addrs[1]) < Len(bi_pools[1]) - Len(bi_res.ret.val)

---------------------------------------------------------------------------
(* Specification SpecBackward: one call of Rpp::backward_selection(s, x),  *)
(* a turn of its while loop per step. s is a prefix of pool 0, as forward  *)
(* selection returns it, x any address of the pool; the cache answers      *)
(* right, or spoils one of the first MaxFaultAt calls of check_evicts.     *)

\* Variant: when no chunk can go, the tail after the chunks goes.
BackwardTurn_rest_dropped(s, x, e, k) ==
    LET chunk_len == Len(s) \div (e.n_lines + 1)
        scan == ChunkScan(s, x, chunk_len, 0, e, k)
    IN  [ret |-> IF scan.ret.ok THEN Ok(Unit) ELSE scan.ret,
         s |-> IF ~scan.ret.ok THEN s
               ELSE IF scan.ret.val
               THEN SubSeq(s, 1, scan.idx)
                        \o SubSeq(s, scan.idx + chunk_len + 1, Len(s))
               ELSE SubSeq(s, 1, scan.idx + chunk_len),
         k |-> scan.k]

\* Variant: when no chunk can go, the first chunk goes.
BackwardTurn_first_dropped(s, x, e, k) ==
    LET chunk_len == Len(s) \div (e.n_lines + 1)
        scan == ChunkScan(s, x, chunk_len, 0, e, k)
    IN  [ret |-> IF scan.ret.ok THEN Ok(Unit) ELSE scan.ret,
         s |-> IF ~scan.ret.ok THEN s
               ELSE IF scan.ret.val
               THEN SubSeq(s, 1, scan.idx)
                        \o SubSeq(s, scan.idx + chunk_len + 1, Len(s))
               ELSE SubSeq(s, chunk_len + 1, Len(s)),
         k |-> scan.k]

\* One turn of while s.len() > n_lines: the first of the n_lines chunks
\* without which s still evicts x is drained, or else the tail from the
\* last chunk on; an error of check_evicts leaves s as it is.
BackwardTurn(s, x, e, k) ==
    LET chunk_len == Len(s) \div (e.n_lines + 1)
        scan == ChunkScan(s, x, chunk_len, 0, e, k)
    IN  [ret |-> IF scan.ret.ok THEN Ok(Unit) ELSE scan.ret,
         s |-> IF ~scan.ret.ok THEN s
               ELSE IF scan.ret.val
               THEN SubSeq(s, 1, scan.idx)
                        \o SubSeq(s, scan.idx + chunk_len + 1, Len(s))
               ELSE SubSeq(s, 1, scan.idx),
         k |-> scan.k]

InitBackward ==
    /\ op = "backward_selection"
    /\ addrs = InitialPools([v_buf |-> MaxPages * PAGE_SIZE])
    /\ \E len \in 0..MaxPages : bs_in = SubSeq(addrs[1], 1, len)
    /\ bs_s = bs_in
    /\ bs_x \in Elems(addrs[1])
    /\ bs_env \in UNION {Envs(n_lines, 1) : n_lines \in 1..MaxLines}
    /\ bs_pc = "enter"
    /\ bs_k = 0
    /\ bs_res = Unset
    /\ InitialRest
    /\ InitialIdle

BackwardFrame ==
    UNCHANGED <<op, pattern, pos, probe_res, win, rec, walk_start, walk_steps,
                walk_seen, patterns, found, ctx, arg, measureVars,
                classifierVars, rppVars, buildVars, trackVars, initPosVars,
                locateVars, trainVars, refreshVars, selectVars, initialVars,
                retryVars, bs_in, bs_x, bs_env>>

\* if s.len() < n_lines { return Err(..) }; if s.len() == n_lines
\* { return Ok(()) }
BackwardEnter ==
    /\ bs_pc = "enter"
    /\ IF Len(bs_s) < bs_env.n_lines
         THEN /\ bs_res' = Err("ERROR: the initial set for backwards selection is too narrow.")
              /\ bs_pc' = "returned"
         ELSE IF Len(bs_s) = bs_env.n_lines
         THEN /\ bs_res' = Ok(Unit)
              /\ bs_pc' = "returned"
         ELSE /\ bs_pc' = "loop"
              /\ UNCHANGED bs_res
    /\ UNCHANGED <<bs_s, bs_k>>
    /\ BackwardFrame

\* A turn of the while loop and the test of its head: Ok(()) when s has
\* n_lines addresses or fewer.
BackwardStep ==
    /\ bs_pc = "loop"
    /\ \E turn \in {BackwardTurn(bs_s, bs_x, bs_env, bs_k)} :
        /\ bs_s' = turn.s
        /\ bs_k' = turn.k
        /\ IF ~turn.ret.ok
             THEN /\ bs_res' = turn.ret
                  /\ bs_pc' = "returned"
             ELSE IF Len(turn.s) > bs_env.n_lines
             THEN /\ UNCHANGED <<bs_res, bs_pc>>
             ELSE /\ bs_res' = Ok(Unit)
                  /\ bs_pc' = "returned"
    /\ BackwardFrame

NextBackward == BackwardEnter \/ BackwardStep

SpecBackward == InitBackward /\ [][NextBackward]_vars

\* The call is scheduled until it returns.
SpecBackwardFair == SpecBackward /\ WF_vars(NextBackward)

\* sub is what is left of seq when some of its entries are taken out.
IsSubsequence(sub, seq) ==
    sub = SelectSeq(seq, LAMBDA a : a \in Elems(sub))

\* C32 (state): the set never has fewer addresses than n_lines once the
\* loop runs and is a subsequence of the input; at Ok it has n_lines
\* addresses exactly; with n_lines addresses at entry nothing is done and
\* no call is made; with fewer the error is returned and s is unchanged;
\* an error of check_evicts is returned as it is.
BackwardShape ==
    /\ IsSubsequence(bs_s, bs_in)
    /\ Len(bs_in) >= bs_env.n_lines => Len(bs_s) >= bs_env.n_lines
    /\ bs_pc = "loop" => Len(bs_s) > bs_env.n_lines
    /\ bs_pc = "returned" =>
        /\ Len(bs_in) < bs_env.n_lines =>
                ~bs_res.ok /\ bs_s = bs_in /\ bs_k = 0
        /\ Len(bs_in) = bs_env.n_lines =>
                bs_res = Ok(Unit) /\ bs_s = bs_in /\ bs_k = 0
        /\ Len(bs_in) > bs_env.n_lines =>
                IF bs_res.ok THEN Len(bs_s) = bs_env.n_lines
                ELSE bs_res = Err("ERROR: connector")
        /\ [ret |-> IF bs_res.ok THEN Ok(bs_s) ELSE bs_res, k |-> bs_k]
                = backward_selection(bs_in, bs_x, bs_env, 0)

\* C32 (steps): every turn that check_evicts lets finish takes at least
\* one address out of s.
BackwardShrinks ==
    (bs_pc = "loop" /\ (bs_pc' = "loop" \/ bs_res'.ok)) => Len(bs_s') < Len(bs_s)

\* C32: for every answer sequence of the eviction oracle backward_selection
\* on a set S with |S| > n_lines strictly shrinks S in every iteration,
\* never below n_lines, and terminates with |S| = n_lines exactly, the
\* result being an order-preserving subsequence of the input; with
\* |S| = n_lines at entry it does nothing and issues no call, and with
\* |S| < n_lines it returns an error and leaves S unchanged.
C32_BackwardShrinks ==
    /\ []BackwardShape
    /\ [][BackwardShrinks]_vars
    /\ <>(bs_pc = "returned")

\* The loop took more than one turn, a wrong answer among them, and
\* returned n_lines addresses.
C32_Witness ==
    /\ bs_pc = "returned"
    /\ bs_res.ok
    /\ bs_env.fault > 0
    /\ bs_env.kind = "flip"
    /\ bs_k >= bs_env.fault
    /\ bs_k > bs_env.n_lines
    /\ Len(bs_in) > Len(bs_s) + 1

\* s evicts x when the cache answers right.
EvictsIdeal(s, x) ==
    Cardinality({i \in 1..Len(s) : s[i] # x /\ Congruent(s[i], x)})
        >= bs_env.n_lines

\* C39: under an ideal oracle, backward_selection applied to a set that
\* evicts x returns a set of n_lines addresses that still evicts x: all
\* the addresses it keeps are congruent to x.
C39_BackwardKeepsEviction ==
    (bs_pc = "returned" /\ bs_env.fault = 0 /\ EvictsIdeal(bs_in, bs_x)) =>
        /\ bs_res = Ok(Unit)
        /\ Len(bs_s) = bs_env.n_lines
        /\ EvictsIdeal(bs_s, bs_x)
        /\ \A i \in 1..Len(bs_s) : Congruent(bs_s[i], bs_x)

\* An evicting set of more than n_lines + 1 addresses was reduced under
\* the ideal oracle.
C39_Witness ==
    /\ bs_pc = "returned"
    /\ bs_env.fault = 0
    /\ EvictsIdeal(bs_in, bs_x)
    /\ Len(bs_in) > bs_env.n_lines + 1
    /\ bs_env.n_lines = MaxLines

====
